---- MODULE Spec2Model ----
(***************************************************************************)
(* CharmVault: the vault transaction pipeline of the browser client.       *)
(*                                                                         *)
(* The model covers the UTXO lock registry (utxoLockService.ts), the       *)
(* funding selector and the four vault operations (vaultService.ts), the   *)
(* spell assembler's validation and deadline gate (spellBuilder.ts) and    *)
(* the package submission call (bitcoinClient).  Every `await` of an       *)
(* operation is a suspension point: one action of the model runs the       *)
(* synchronous code between two awaits.  The chain data provider, the      *)
(* proof service, the node and the wallet are the environment: each call   *)
(* resolves or rejects nondeterministically.                               *)
(*                                                                         *)
(* The clock `now` counts ticks of 5 minutes, so the 15-minute lock TTL is *)
(* 3 ticks and the 5-minute failure cooldown is 1 tick.                    *)
(*                                                                         *)
(* The specifications share the variables: Spec (interleaved createVault   *)
(* invocations in two tabs), SpecVault (the four operations called in      *)
(* sequence in one tab), SpecSelect (the funding selector alone),          *)
(* SpecFunds (createVault on a wallet with a lock left behind), SpecLock   *)
(* (the lock registry alone, on working, full, blocked and corrupt         *)
(* storage), SpecPayout (the operations over payout amounts), SpecCodec    *)
(* (the conversions of the proof service's answer), SpecSpell (the spell   *)
(* builders alone) and SpecBroadcast (the package submission alone).       *)
(* All but SpecLock assume working storage.                                *)
(***************************************************************************)
EXTENDS Integers, Sequences, FiniteSets, TLC

VARIABLES
    now,              \* Date.now(), in ticks of 5 minutes
    height,           \* chain tip reported by the data provider
    walletConnected,  \* getActiveWallet() returns a wallet
    utxos,            \* walletState.utxos, the wallet's UTXO snapshot
    lockStore,        \* localStorage['charmvault_locked_utxos'] (a list)
    storageState,     \* form of that stored value, and whether localStorage works
    failedUTXOs,      \* per session: VaultService.failedUTXOs
    vaultsCache,      \* per session: VaultService.vaultsCache
    vaultStorage,     \* localStorage['vault_<id>']
    ops,              \* the invocations in flight, one record per task slot
    calls,            \* number of invocations started so far
    wasmCache         \* per session: ProverClient.wasmCache is set

vars == <<now, height, walletConnected, utxos, lockStore, storageState, failedUTXOs,
          vaultsCache, vaultStorage, ops, calls, wasmCache>>

----------------------------------------------------------------------------
(* Bounds of the model *)

MaxCalls == 3
MaxTime == 4
MaxHeight == 3
MaxCandidates == 3
MaxLocks == 2

(* Program constants, in clock ticks and satoshis *)

LOCK_TIMEOUT == 3
FAILURE_COOLDOWN == 1
MIN_UTXO_VALUE == 3000

\* two tasks may be in flight at once, in the same tab or in two tabs
Ops == {1, 2}
Sessions == {"tab1", "tab2"}

NoUtxo == [txid |-> "none", vout |-> 0, value |-> 0]
NoFailure == [count |-> 0, lastFailed |-> 0]
NoTx == [role |-> "none", req |-> <<"none", 0>>, fmt |-> "raw", sigs |-> 0]

\* localStorage as the vault pipeline assumes it: the lock key holds a JSON
\* array (or nothing) and every access succeeds
WorkingStorage == [form |-> "array", access |-> "ok"]

----------------------------------------------------------------------------
(* Sequence helpers *)

RECURSIVE FilterSeq(_, _)
FilterSeq(s, keep) ==
    IF s = <<>> THEN <<>>
    ELSE IF Head(s) \in keep THEN <<Head(s)>> \o FilterSeq(Tail(s), keep)
         ELSE FilterSeq(Tail(s), keep)

Range(s) == {s[i] : i \in DOMAIN s}

RECURSIVE SumSeq(_)
SumSeq(s) == IF s = <<>> THEN 0 ELSE Head(s) + SumSeq(Tail(s))

----------------------------------------------------------------------------
(* UTXO identifiers: `${txid}:${vout}` *)

UtxoId(u) == <<u.txid, u.vout>>

----------------------------------------------------------------------------
(* UTXO lock registry (utxoLockService.ts).  Each operator takes the stored *)
(* list and returns the list that is stored when the call returns.          *)

HasRecord(store, id) == \E i \in DOMAIN store : store[i].utxoId = id

Find(store, id) ==
    store[CHOOSE i \in DOMAIN store :
              /\ store[i].utxoId = id
              /\ \A j \in DOMAIN store : store[j].utxoId = id => i <= j]

\* variant: a second record is pushed for an id that has one
lockUTXOAgain(store, id, lockType, t) ==
    Append(store, [utxoId |-> id, lockedAt |-> t, lockType |-> lockType,
                   expiresAt |-> t + LOCK_TIMEOUT])

lockUTXO(store, id, lockType, t) ==
    IF HasRecord(store, id) THEN store
    ELSE Append(store, [utxoId |-> id, lockedAt |-> t, lockType |-> lockType,
                        expiresAt |-> t + LOCK_TIMEOUT])

\* variant: the release writes nothing back
unlockUTXOKept(store, id) == store

\* variant: the release empties the registry
unlockUTXOAll(store, id) == <<>>

unlockUTXO(store, id) ==
    FilterSeq(store, {r \in Range(store) : r.utxoId # id})

\* variant: no record counts as a lock
isLockedNever(store, id, t) == FALSE

isLocked(store, id, t) ==
    /\ HasRecord(store, id)
    /\ ~ (t >= Find(store, id).expiresAt)

\* variant: isLocked leaves an expired record in place
isLockedStoreKept(store, id, t) == store

\* the stored list after isLocked(id): an expired record is evicted
isLockedStore(store, id, t) ==
    IF HasRecord(store, id) /\ t >= Find(store, id).expiresAt
    THEN unlockUTXO(store, id)
    ELSE store

\* variant: the sweep removes nothing
clearExpiredLocksNone(store, t) == store

clearExpiredLocks(store, t) ==
    FilterSeq(store, {r \in Range(store) : ~ (t >= r.expiresAt)})

----------------------------------------------------------------------------
(* Persistence of the registry (utxoLockService.ts save, load and           *)
(* clearAllLocks).  storageState.form tells what localStorage holds under   *)
(* the lock key: "array" (a JSON array or nothing; lockStore is then the    *)
(* list load() returns), "unparsable" (JSON.parse throws) or "notarray"     *)
(* (JSON that is no array).  storageState.access tells how localStorage     *)
(* answers: "ok", "full" (setItem throws QuotaExceededError, reads and      *)
(* removals work) or "blocked" (every access throws SecurityError).         *)

StorageForms == {"array", "unparsable", "notarray"}
StorageAccess == {"ok", "full", "blocked"}
LockTypes == {"creating_vault", "creating_savings"}

\* JSON.stringify(lockedUTXOs): one object per record, members in insertion order
stringify(lockedUTXOs) ==
    [i \in DOMAIN lockedUTXOs |->
        << <<"utxoId", lockedUTXOs[i].utxoId>>, <<"lockedAt", lockedUTXOs[i].lockedAt>>,
           <<"lockType", lockedUTXOs[i].lockType>>, <<"expiresAt", lockedUTXOs[i].expiresAt>> >>]

Member(obj, key) == obj[CHOOSE k \in DOMAIN obj : obj[k][1] = key][2]

\* JSON.parse(stored) of such a text
parse(text) ==
    [i \in DOMAIN text |->
        [utxoId |-> Member(text[i], "utxoId"), lockedAt |-> Member(text[i], "lockedAt"),
         lockType |-> Member(text[i], "lockType"),
         expiresAt |-> Member(text[i], "expiresAt")]]

\* load() throws: getItem throws, and removeItem, called from the catch block
\* outside any try, throws in turn
loadThrows(st) == st.access = "blocked"

\* the list load() returns; a value that is no JSON array is removed
load(store, st) == IF st.form = "array" THEN store ELSE <<>>

\* variant: save returns without writing
saveSkipped(stored, lockedUTXOs, st) == stored

\* what load() returns after save(lockedUTXOs): a throwing setItem is swallowed
save(stored, lockedUTXOs, st) ==
    IF st.access = "ok" THEN parse(stringify(lockedUTXOs)) ELSE stored

----------------------------------------------------------------------------
(* Funding selector (VaultService.selectFundingUTXO) *)

InCooldown(failed, id, t) ==
    /\ id \in DOMAIN failed
    /\ failed[id] # NoFailure
    /\ (t - failed[id].lastFailed) < FAILURE_COOLDOWN

\* the filter callback, applied to one candidate against the current store
Suitable(store, failed, u, requiredAmount, t) ==
    /\ ~ (u.value < requiredAmount)
    /\ ~ isLocked(store, UtxoId(u), t)
    /\ ~ InCooldown(failed, UtxoId(u), t)

\* the store after the filter callback ran on one candidate
SuitableStore(store, u, requiredAmount, t) ==
    IF u.value < requiredAmount THEN store
    ELSE isLockedStore(store, UtxoId(u), t)

\* utxos.filter(...): the kept candidates, in order, threading the store
RECURSIVE FilterUTXOs(_, _, _, _, _)
FilterUTXOs(us, store, failed, requiredAmount, t) ==
    IF us = <<>> THEN <<>>
    ELSE LET u == Head(us)
             rest == FilterUTXOs(Tail(us), SuitableStore(store, u, requiredAmount, t),
                                 failed, requiredAmount, t)
         IN  IF Suitable(store, failed, u, requiredAmount, t)
             THEN <<u>> \o rest ELSE rest

RECURSIVE FilterUTXOsStore(_, _, _, _)
FilterUTXOsStore(us, store, requiredAmount, t) ==
    IF us = <<>> THEN store
    ELSE FilterUTXOsStore(Tail(us), SuitableStore(store, Head(us), requiredAmount, t),
                          requiredAmount, t)

\* variant: a comparator that puts a later equal value first
ValueBeforeStrict(a, b) == a.value < b.value

\* the comparator of .sort((a, b) => a.value - b.value)
ValueBefore(a, b) == a.value <= b.value

\* Array.prototype.sort is stable: insert after the last element not above
RECURSIVE InsertSorted(_, _)
InsertSorted(u, s) ==
    IF s = <<>> THEN <<u>>
    ELSE IF ValueBefore(Head(s), u) THEN <<Head(s)>> \o InsertSorted(u, Tail(s))
         ELSE <<u>> \o s

RECURSIVE SortByValue(_)
SortByValue(s) ==
    IF s = <<>> THEN <<>>
    ELSE InsertSorted(s[Len(s)], SortByValue(SubSeq(s, 1, Len(s) - 1)))

selectFundingUTXO(us, store, failed, requiredAmount, t) ==
    LET swept == clearExpiredLocks(store, t)
        suitableUTXOs == SortByValue(FilterUTXOs(us, swept, failed, requiredAmount, t))
    IN  IF suitableUTXOs = <<>> THEN NoUtxo ELSE suitableUTXOs[1]

\* the stored lock list when selectFundingUTXO returns
selectFundingStore(us, store, requiredAmount, t) ==
    FilterUTXOsStore(us, clearExpiredLocks(store, t), requiredAmount, t)

----------------------------------------------------------------------------
(* Beneficiaries and validation (SpellBuilder.validateBeneficiaries) *)

Ben(a, p) == [address |-> a, percentage |-> p]

RECURSIVE TotalPercentage(_)
TotalPercentage(bs) ==
    IF bs = <<>> THEN 0 ELSE Head(bs).percentage + TotalPercentage(Tail(bs))

\* variant: only totals above 100 are rejected
validateBeneficiariesAtMost(bs) == TotalPercentage(bs) <= 100

validateBeneficiaries(bs) == TotalPercentage(bs) = 100

ValidLists == { <<Ben("b1", 100)>>, <<Ben("b1", 60), Ben("b2", 40)>> }
InvalidLists == { <<>>, <<Ben("b1", 60), Ben("b2", 60)>>,
                  <<Ben("b1", 30), Ben("b2", 30), Ben("b3", 30)>> }
BenLists == ValidLists \cup InvalidLists

----------------------------------------------------------------------------
(* Errors.  cls is the class of the thrown value, code its CharmVaultError  *)
(* code, dup whether its message contains 'duplicate funding UTXO'.         *)

CharmErr(code) == [cls |-> "CharmVaultError", code |-> code, dup |-> FALSE]
PlainErr == [cls |-> "Error", code |-> "none", dup |-> FALSE]
NoErr == [cls |-> "none", code |-> "none", dup |-> FALSE]
DuplicateErr == [cls |-> "CharmVaultError", code |-> "PROVER_ERROR", dup |-> TRUE]

\* the outer catch of createVault
CreateVaultErrorCode(e, fundingUTXO) ==
    IF e.dup /\ fundingUTXO # NoUtxo THEN "DUPLICATE_UTXO"
    ELSE IF e.cls = "CharmVaultError" THEN e.code
    ELSE "CREATE_VAULT_ERROR"

\* variant: the failure is not recorded
markUTXOFailedDropped(failed, id, t) == failed

\* VaultService.markUTXOFailed
markUTXOFailed(failed, id, t) ==
    LET existing == IF id \in DOMAIN failed THEN failed[id].count ELSE 0
        entry == [count |-> existing + 1, lastFailed |-> t]
    IN  [x \in DOMAIN failed \cup {id} |-> IF x = id THEN entry ELSE failed[x]]

----------------------------------------------------------------------------
(* Transactions.  A transaction is the pair the proof service returned for  *)
(* a request (req = the UTXO id the request names), in raw or partially-    *)
(* signed format, with the number of wallet signatures attached to it.      *)

ProverResponse(req) ==
    << [role |-> "commit", req |-> req, fmt |-> "raw", sigs |-> 0],
       [role |-> "spell",  req |-> req, fmt |-> "raw", sigs |-> 0] >>

\* psbtHelper.convertRawTxToPsbt: the same transaction in PSBT format
convertRawTxToPsbt(tx) == [tx EXCEPT !.fmt = "psbt"]

\* the wallet's signPsbt: a PSBT with one more signature
WalletSign(tx) == [tx EXCEPT !.fmt = "psbt", !.sigs = @ + 1]

\* psbtHelper.extractTxFromPsbt: finalize and serialize as raw
extractTxFromPsbt(psbt) == [psbt EXCEPT !.fmt = "raw"]

\* variant: the spell transaction is sent on its own
broadcastSeparately(commitTxHex, spellTxHex) ==
    [method |-> "sendrawtransaction", params |-> <<spellTxHex>>]

\* BitcoinClient.broadcastPackage: the JSON-RPC call it posts
broadcastPackage(commitTxHex, spellTxHex) ==
    [method |-> "submitpackage", params |-> <<commitTxHex, spellTxHex>>]

\* the id broadcastPackage returns: the spell transaction's id
TxidOf(tx) == <<"txid", tx.role, tx.req>>

----------------------------------------------------------------------------
(* Vault records *)

VaultIdOf(txid) == <<txid, 0>>
NoVaultId == VaultIdOf(<<"txid", "none", <<"none", 0>>>>)

\* the Vault object createVault builds
NewVault(vaultTxid, amount, bens, delay, currentBlock, t) ==
    [id |-> VaultIdOf(vaultTxid),
     status |-> "Active",
     lockedSats |-> amount,
     unlockDate |-> t + delay * 2,
     unlockBlock |-> currentBlock + delay,
     createdBlock |-> currentBlock,
     beneficiaries |-> bens,
     triggerDelayBlocks |-> delay]

\* Map.set / localStorage.setItem on a key
Put(f, k, v) == [x \in DOMAIN f \cup {k} |-> IF x = k THEN v ELSE f[x]]

----------------------------------------------------------------------------
(* Spells (spellBuilder.ts) and app references (proverClient.ts 163-183).   *)
(* The text `${txid}:${vout}` of an outpoint is the sequence of its parts;  *)
(* SHA-256 is a tag on the text it is applied to: equal texts give equal    *)
(* digests, different texts different ones.                                 *)

\* the fee reserve every spell on a vault deducts from the vault's value
ESTIMATED_FEE == 2000

AppVk == "app_vk"
OwnerPubkey == "owner_pubkey"
OwnerAddress == "owner_address"

\* the text of a wallet UTXO's id
FundingText(fundingUTXO) == <<fundingUTXO.txid, fundingUTXO.vout>>

\* the text of a vault UTXO's id after vaultId.split(':') and parseInt: the
\* spell transaction's id, then the output index
VaultText(vaultId) ==
    <<vaultId[1][1], vaultId[1][2]>> \o vaultId[1][3] \o <<vaultId[2]>>

\* ProverClient.calculateAppId
calculateAppId(fundingUtxo) == <<"sha256">> \o fundingUtxo

\* ProverClient.buildAppReference: n/<app_id>/<app_vk>
buildAppReference(fundingUtxo) == <<"n", calculateAppId(fundingUtxo), AppVk>>

\* satoshi amounts of this model that the conversion to BTC and back loses
\* one satoshi of: Math.floor((n / 100000000) * 100000000) = n - 1 in
\* IEEE-754 doubles
InexactSats == {999, 3055}

\* vaultUTXO.value of checkin, updateBeneficiaries and distribute:
\* Math.floor(vault.lockedBTC * 100000000), lockedBTC = amount / 100000000
vaultValue(vault) ==
    IF vault.lockedSats \in InexactSats THEN vault.lockedSats - 1
    ELSE vault.lockedSats

\* `charms: {}` of a plain input, and the absent charms of a plain output
NoCharm == [plain |-> TRUE]

InheritanceContent(lastCheckin, delay, bens) ==
    [owner_pubkey |-> OwnerPubkey,
     last_checkin_block |-> lastCheckin,
     trigger_delay_blocks |-> delay,
     beneficiaries |-> bens,
     status |-> "Active"]

\* the vaultCharm the three vault operations pass to the spell builder
\* (vaultService.ts 332-338, 430-436, 518-524)
vaultCharm(vault) ==
    InheritanceContent(vault.createdBlock, vault.triggerDelayBlocks,
                       vault.beneficiaries)

\* SpellBuilder.buildCreateVaultSpell
buildCreateVaultSpell(fundingUTXO, amount, bens, delay) ==
    [apps |-> buildAppReference(FundingText(fundingUTXO)),
     ins |-> << [utxo_id |-> UtxoId(fundingUTXO), charms |-> NoCharm] >>,
     outs |-> << [address |-> OwnerAddress, sats |-> amount,
                  charms |-> InheritanceContent(0, delay, bens)] >>]

\* SpellBuilder.buildCheckinSpell
buildCheckinSpell(vaultId, value, charm, ownerPubkey, currentBlock) ==
    [apps |-> <<"n", calculateAppId(VaultText(vaultId)), AppVk>>,
     ins |-> << [utxo_id |-> vaultId, charms |-> charm] >>,
     outs |-> << [address |-> OwnerAddress, sats |-> value - ESTIMATED_FEE,
                  charms |-> [charm EXCEPT !.last_checkin_block = currentBlock,
                                           !.owner_pubkey = ownerPubkey]] >>]

\* SpellBuilder.buildUpdateBeneficiariesSpell
buildUpdateBeneficiariesSpell(vaultId, value, charm, newBeneficiaries, ownerPubkey, currentBlock) ==
    [apps |-> <<"n", calculateAppId(VaultText(vaultId)), AppVk>>,
     ins |-> << [utxo_id |-> vaultId, charms |-> charm] >>,
     outs |-> << [address |-> OwnerAddress, sats |-> value - ESTIMATED_FEE,
                  charms |-> [charm EXCEPT !.beneficiaries = newBeneficiaries,
                                           !.last_checkin_block = currentBlock,
                                           !.owner_pubkey = ownerPubkey]] >>]

\* the outputs of the distribute spell (spellBuilder.ts 184-193): Math.floor
\* rounds toward minus infinity, as \div does
distributeOutputs(value, bens) ==
    LET totalValue == value - ESTIMATED_FEE
    IN  [i \in DOMAIN bens |->
            [address |-> bens[i].address,
             sats |-> (totalValue * bens[i].percentage) \div 100,
             charms |-> NoCharm]]

\* variant: every output carries the contract state on
buildDistributeSpellKeepingState(vaultId, value, charm) ==
    [apps |-> <<"n", calculateAppId(VaultText(vaultId)), AppVk>>,
     ins |-> << [utxo_id |-> vaultId, charms |-> charm] >>,
     outs |-> [i \in DOMAIN charm.beneficiaries |->
                  [distributeOutputs(value, charm.beneficiaries)[i]
                      EXCEPT !.charms = charm]]]

\* SpellBuilder.buildDistributeSpell, past its deadline check
buildDistributeSpell(vaultId, value, charm) ==
    [apps |-> <<"n", calculateAppId(VaultText(vaultId)), AppVk>>,
     ins |-> << [utxo_id |-> vaultId, charms |-> charm] >>,
     outs |-> distributeOutputs(value, charm.beneficiaries)]

\* the spell a vault operation builds for a vault record; the owner key it
\* passes is walletState.publicKey, the key the vault was created with as
\* long as the same wallet account is connected
buildVaultSpell(kind, vaultId, vault, newBeneficiaries, currentBlock) ==
    IF kind = "checkin"
    THEN buildCheckinSpell(vaultId, vaultValue(vault), vaultCharm(vault), OwnerPubkey,
                           currentBlock)
    ELSE IF kind = "update"
    THEN buildUpdateBeneficiariesSpell(vaultId, vaultValue(vault), vaultCharm(vault),
                                       newBeneficiaries, OwnerPubkey, currentBlock)
    ELSE buildDistributeSpell(vaultId, vaultValue(vault), vaultCharm(vault))

----------------------------------------------------------------------------
(* Operation slots *)

IdleOp ==
    [kind |-> "none", pc |-> "idle", sess |-> "tab1", amount |-> 0,
     bens |-> <<>>, delay |-> 0, vaultId |-> NoVaultId, utxo |-> NoUtxo,
     lockedAt |-> 0, evicted |-> {}, curBlock |-> 0, commitTx |-> NoTx,
     spellTx |-> NoTx, signedCommitTx |-> NoTx,
     err |-> "none", msg |-> "none", cause |-> NoErr, result |-> <<"none">>,
     trace |-> <<>>]

Event(ev, arg) == [ev |-> ev, arg |-> arg]

\* an invocation that has returned or thrown: its locals are gone; the slot
\* keeps the arguments of the call, what the caller observed, the funding
\* UTXO it used and its history
Returned(op, txid, evs) ==
    [IdleOp EXCEPT !.kind = op.kind, !.pc = "done", !.amount = op.amount,
                   !.bens = op.bens, !.vaultId = op.vaultId, !.utxo = op.utxo,
                   !.result = txid, !.trace = op.trace \o evs]

Thrown(op, code, evs) ==
    [IdleOp EXCEPT !.kind = op.kind, !.pc = "failed", !.amount = op.amount,
                   !.bens = op.bens, !.vaultId = op.vaultId, !.utxo = op.utxo,
                   !.err = code, !.trace = op.trace \o evs]

\* the catch block of createVault (lines 281-300): the caught value e is
\* kept as cause (the `details` of the error thrown to the caller)
createVaultCatch(op, e, fundingUTXO, evs) ==
    [Thrown(op, CreateVaultErrorCode(e, fundingUTXO), evs) EXCEPT !.cause = e]

Terminated(o) == ops[o].pc \in {"done", "failed"}

InFlight(o) == ops[o].pc \notin {"idle", "done", "failed"}

----------------------------------------------------------------------------
(* Inputs *)

EmptyMap == [x \in {} |-> TRUE]

Amounts == {1000, 4000, 6000, 20000}
\* amounts for which two invocations compete for the same candidates
ContendedAmounts == {4000, 6000}
\* amounts of sequential calls: met only by a candidate below the minimum
\* funding value, met by a fundable candidate, above every candidate
VaultAmounts == {1000, 4000, 20000}
Delays == {1, 2}

Wallet ==
    << [txid |-> "ta", vout |-> 0, value |-> 10000],
       [txid |-> "tb", vout |-> 0, value |-> 5000],
       [txid |-> "tb", vout |-> 1, value |-> 5000],
       [txid |-> "tc", vout |-> 0, value |-> 2000] >>

----------------------------------------------------------------------------
(* createVault (vaultService.ts 49-301), one action per await *)

SetOp(o, op) == ops' = [ops EXCEPT ![o] = op]

\* variant: the selected UTXO is used without a lock
LockFundingSkipped(op, selected, store, t) ==
    [op |-> [op EXCEPT !.utxo = selected, !.pc = "height"], store |-> store]

\* createVault lines 90-93: lock the selected UTXO, then go on to the first await
LockFunding(op, selected, store, t) ==
    [op |-> [op EXCEPT !.utxo = selected, !.pc = "height", !.lockedAt = t,
                       !.trace = @ \o <<Event("lock", UtxoId(selected))>>],
     store |-> lockUTXO(store, UtxoId(selected), "creating_vault", t)]

\* the messages of the two INSUFFICIENT_FUNDS errors createVault constructs
\* itself (the other codes carry one message each and keep msg "none")
NoFundingMessage ==
    "Insufficient funds or all suitable UTXOs are currently locked/cooling down"
TooSmallMessage == "Funding UTXO too small"

\* the ids whose records the selection removed as expired
EvictedIds(store, swept) ==
    {r.utxoId : r \in Range(store)} \ {r.utxoId : r \in Range(swept)}

\* what createVault does from its call to its first await
createVaultEntry(op, store, failed, t) ==
    LET selected == selectFundingUTXO(utxos, store, failed, op.amount, t)
        swept == selectFundingStore(utxos, store, op.amount, t)
        utxoId == UtxoId(selected)
    IN  IF ~ validateBeneficiaries(op.bens)
        THEN [op |-> createVaultCatch(op, CharmErr("VALIDATION_ERROR"), NoUtxo, <<>>),
              store |-> store]
        ELSE IF ~ walletConnected
        THEN [op |-> createVaultCatch(op, CharmErr("WALLET_NOT_CONNECTED"), NoUtxo, <<>>),
              store |-> store]
        ELSE IF selected = NoUtxo
        THEN [op |-> [createVaultCatch(op, CharmErr("INSUFFICIENT_FUNDS"), NoUtxo,
                                       <<>>) EXCEPT !.msg = NoFundingMessage],
              store |-> swept]
        ELSE IF selected.value < MIN_UTXO_VALUE
        THEN [op |-> [createVaultCatch([op EXCEPT !.utxo = selected],
                                       CharmErr("INSUFFICIENT_FUNDS"), selected,
                                       <<>>) EXCEPT !.msg = TooSmallMessage],
              store |-> swept]
        ELSE LockFunding([op EXCEPT !.evicted = EvictedIds(store, swept)],
                         selected, swept, t)

\* a call createVault(amount, beneficiaries, triggerDelayBlocks) in session s
CallCreateVault(o, s, amount, bens, delay) ==
    LET op == [IdleOp EXCEPT !.kind = "create", !.sess = s, !.amount = amount,
                             !.bens = bens, !.delay = delay]
        r == createVaultEntry(op, lockStore, failedUTXOs[s], now)
    IN  /\ SetOp(o, r.op)
        /\ lockStore' = r.store
        /\ UNCHANGED <<wasmCache, storageState, now, height, walletConnected, utxos, failedUTXOs,
                       vaultsCache, vaultStorage>>

\* interleaved invocations: each task slot runs one createVault
CreateStart(o) ==
    /\ ops[o].pc = "idle"
    /\ \A p \in Ops : p < o => ops[p].pc # "idle"
    /\ \E s \in Sessions, amount \in ContendedAmounts :
         CallCreateVault(o, s, amount, <<Ben("b1", 100)>>, 2)
    /\ UNCHANGED calls

\* the inner catch (unlock) followed by the outer catch (classify)
CreateThrow(o, e, evs) ==
    LET op == ops[o]
        id == UtxoId(op.utxo)
    IN  /\ lockStore' = unlockUTXO(lockStore, id)
        /\ failedUTXOs' =
             IF e.dup /\ op.utxo # NoUtxo
             THEN [failedUTXOs EXCEPT ![op.sess] = markUTXOFailed(@, id, now)]
             ELSE failedUTXOs
        /\ SetOp(o, createVaultCatch(op, e, op.utxo,
                                     evs \o <<Event("unlock", id)>>))
        /\ UNCHANGED <<wasmCache, storageState, now, height, walletConnected, utxos, vaultsCache, vaultStorage, calls>>

CreateStep(o, pc, evs) ==
    /\ SetOp(o, [ops[o] EXCEPT !.pc = pc, !.trace = @ \o evs])
    /\ UNCHANGED <<wasmCache, storageState, now, height, walletConnected, utxos, lockStore, failedUTXOs,
                   vaultsCache, vaultStorage, calls>>

InCreate(o, pc) == ops[o].kind = "create" /\ ops[o].pc = pc

\* await bitcoinClient.getCurrentBlockHeight()
CreateHeight(o) ==
    /\ InCreate(o, "height")
    /\ \/ /\ SetOp(o, [ops[o] EXCEPT !.pc = "fee", !.curBlock = height])
          /\ UNCHANGED <<wasmCache, storageState, now, height, walletConnected, utxos, lockStore, failedUTXOs,
                         vaultsCache, vaultStorage, calls>>
       \/ CreateThrow(o, CharmErr("BITCOIN_ERROR"), <<>>)

\* await bitcoinClient.getFeeEstimates(): falls back to defaults, never rejects
CreateFee(o) ==
    /\ InCreate(o, "fee")
    /\ CreateStep(o, "spell", <<>>)

\* await spellBuilder.buildCreateVaultSpell(params)
CreateSpell(o) ==
    /\ InCreate(o, "spell")
    /\ \/ CreateStep(o, "prevtx",
                     <<Event("spell", buildCreateVaultSpell(ops[o].utxo,
                           ops[o].amount, ops[o].bens, ops[o].delay))>>)
       \/ CreateThrow(o, CharmErr("PROVER_ERROR"), <<>>)

\* await bitcoinClient.getRawTransaction(fundingUTXO.txid)
CreatePrevTx(o) ==
    /\ InCreate(o, "prevtx")
    /\ \/ CreateStep(o, "request", <<>>)
       \/ CreateThrow(o, CharmErr("BITCOIN_ERROR"), <<>>)

\* proverClient.buildProverRequest(...) is called: loadContractWasm returns
\* the cached binary, the request is built and proveSpell posts it; or it
\* finds no cached binary and fetches it
CreateRequest(o) ==
    /\ InCreate(o, "request")
    /\ IF wasmCache[ops[o].sess]
       THEN CreateStep(o, "prove", <<Event("prove", UtxoId(ops[o].utxo))>>)
       ELSE CreateStep(o, "wasm", <<>>)

\* variant: a failed proof request is posted once more before giving up
CreateProveResending(o) ==
    /\ InCreate(o, "prove")
    /\ \/ LET resp == ProverResponse(UtxoId(ops[o].utxo))
          IN  /\ SetOp(o, [ops[o] EXCEPT !.pc = "import", !.commitTx = resp[1],
                                         !.spellTx = resp[2]])
              /\ UNCHANGED <<wasmCache, storageState, now, height, walletConnected, utxos, lockStore,
                             failedUTXOs, vaultsCache, vaultStorage, calls>>
       \/ IF Cardinality({i \in DOMAIN ops[o].trace : ops[o].trace[i].ev = "prove"}) < 2
          THEN CreateStep(o, "prove", <<Event("prove", UtxoId(ops[o].utxo))>>)
          ELSE CreateThrow(o, CharmErr("PROVER_ERROR"), <<>>)
       \/ CreateThrow(o, DuplicateErr, <<Event("rejected", "duplicate funding UTXO")>>)

\* await proverClient.proveSpell(proverRequest)
CreateProve(o) ==
    /\ InCreate(o, "prove")
    /\ \/ LET resp == ProverResponse(UtxoId(ops[o].utxo))
          IN  /\ SetOp(o, [ops[o] EXCEPT !.pc = "import", !.commitTx = resp[1],
                                         !.spellTx = resp[2]])
              /\ UNCHANGED <<wasmCache, storageState, now, height, walletConnected, utxos, lockStore,
                             failedUTXOs, vaultsCache, vaultStorage, calls>>
       \/ CreateThrow(o, CharmErr("PROVER_ERROR"), <<>>)
       \/ CreateThrow(o, DuplicateErr, <<Event("rejected", "duplicate funding UTXO")>>)

\* await import('bitcoinjs-lib'), parse for logging; then the direct broadcast
CreateImport(o) ==
    /\ InCreate(o, "import")
    /\ \/ CreateStep(o, "broadcast1",
                     <<Event("rpc", broadcastPackage(ops[o].commitTx, ops[o].spellTx))>>)
       \/ CreateThrow(o, PlainErr, <<>>)

\* return of createVault after a successful broadcast (lines 235-271)
CreateFinish(o, vaultTxid) ==
    LET op == ops[o]
        id == UtxoId(op.utxo)
        vault == NewVault(vaultTxid, op.amount, op.bens, op.delay, op.curBlock, now)
    IN  \/ /\ lockStore' = unlockUTXO(lockStore, id)
           /\ vaultsCache' = [vaultsCache EXCEPT ![op.sess] = Put(@, vault.id, vault)]
           /\ vaultStorage' = Put(vaultStorage, vault.id, vault)
           /\ SetOp(o, Returned(op, vaultTxid, <<Event("unlock", id)>>))
           /\ UNCHANGED <<wasmCache, storageState, now, height, walletConnected, utxos, failedUTXOs, calls>>
        \* new Date(...).toISOString() throws RangeError on an out-of-range date
        \/ CreateThrow(o, PlainErr, <<Event("unlock", id)>>)

\* await bitcoinClient.broadcastPackage(commitTx, spellTx)
CreateBroadcast1(o) ==
    /\ InCreate(o, "broadcast1")
    /\ \/ CreateFinish(o, TxidOf(ops[o].spellTx))
       \* rejected: convert the commit transaction and ask the wallet to sign
       \/ CreateStep(o, "sign", <<Event("sign", convertRawTxToPsbt(ops[o].commitTx))>>)
       \/ CreateThrow(o, PlainErr, <<>>)

\* await activeWallet.signTransaction(commitPsbtHex); then the resubmission
CreateSign(o) ==
    /\ InCreate(o, "sign")
    /\ \/ LET signedCommitTx ==
                  extractTxFromPsbt(WalletSign(convertRawTxToPsbt(ops[o].commitTx)))
              signedSpellTx == ops[o].spellTx
          IN  /\ SetOp(o, [ops[o] EXCEPT
                             !.pc = "broadcast2", !.commitTx = signedCommitTx,
                             !.trace = @ \o <<Event("rpc",
                                 broadcastPackage(signedCommitTx, signedSpellTx))>>])
              /\ UNCHANGED <<wasmCache, storageState, now, height, walletConnected, utxos, lockStore,
                             failedUTXOs, vaultsCache, vaultStorage, calls>>
       \/ CreateThrow(o, CharmErr("WALLET_ERROR"), <<>>)
       \/ CreateThrow(o, PlainErr, <<>>)

\* await bitcoinClient.broadcastPackage(signedCommitTx, signedSpellTx)
CreateBroadcast2(o) ==
    /\ InCreate(o, "broadcast2")
    /\ \/ CreateFinish(o, TxidOf(ops[o].spellTx))
       \/ CreateThrow(o, CharmErr("BITCOIN_ERROR"), <<>>)

----------------------------------------------------------------------------
(* checkin, updateBeneficiaries, distribute (vaultService.ts 306-600).      *)
(* The three operations run the same sequence of awaits; one action per     *)
(* await serves all three and branches on the kind where the code differs.  *)

VaultKinds == {"checkin", "update", "dist"}

\* the vault id no createVault has produced
MissingVaultId == VaultIdOf(<<"txid", "spell", <<"missing", 0>>>>)

\* VaultService.getVault: cache first, then localStorage (which fills the cache)
getVault(cache, storage, vaultId) ==
    IF vaultId \in DOMAIN cache
    THEN [found |-> TRUE, vaultId |-> vaultId, cache |-> cache]
    ELSE IF vaultId \in DOMAIN storage
    THEN [found |-> TRUE, vaultId |-> vaultId,
          cache |-> Put(cache, vaultId, storage[vaultId])]
    ELSE [found |-> FALSE, vaultId |-> vaultId, cache |-> cache]

\* variant: every caught value is wrapped with the operation's own code
VaultErrorCodeWrapped(kind, e) ==
    IF kind = "checkin" THEN "CHECKIN_ERROR"
    ELSE IF kind = "update" THEN "UPDATE_ERROR"
    ELSE "DISTRIBUTE_ERROR"

\* the code the catch block of checkin / updateBeneficiaries / distribute
\* reports
VaultErrorCode(kind, e) ==
    IF e.cls = "CharmVaultError" THEN e.code
    ELSE IF kind = "checkin" THEN "CHECKIN_ERROR"
    ELSE IF kind = "update" THEN "UPDATE_ERROR"
    ELSE "DISTRIBUTE_ERROR"

\* the catch block of checkin, updateBeneficiaries and distribute: the
\* caught value e is kept as cause
vaultOpCatch(op, e) ==
    [Thrown(op, VaultErrorCode(op.kind, e), <<>>) EXCEPT !.cause = e]

\* variant: the gate lets the deadline block itself through
VaultLockedStrict(currentBlock, vault) == currentBlock < vault.unlockBlock

\* the gate of distribute (line 503)
VaultLocked(currentBlock, vault) == currentBlock <= vault.unlockBlock

\* the deadline check of SpellBuilder.buildDistributeSpell, on the charm
\* distribute builds (last_checkin_block: vault.createdBlock)
DeadlineNotReached(currentBlock, vault) ==
    currentBlock <= vault.createdBlock + vault.triggerDelayBlocks

\* variant: the check-in moves the displayed date and not the unlock block
applyCheckinDateOnly(vault, currentBlock, t) ==
    [vault EXCEPT !.unlockDate = t + vault.triggerDelayBlocks * 2]

\* the record after a successful check-in (lines 375-376)
applyCheckin(vault, currentBlock, t) ==
    [vault EXCEPT !.unlockBlock = currentBlock + vault.triggerDelayBlocks,
                  !.unlockDate = t + vault.triggerDelayBlocks * 2]

\* variant: the new beneficiaries are added to the ones the vault had
applyUpdateMerged(vault, newBeneficiaries, currentBlock, t) ==
    [vault EXCEPT !.beneficiaries = vault.beneficiaries \o newBeneficiaries,
                  !.unlockBlock = currentBlock + vault.triggerDelayBlocks,
                  !.unlockDate = t + vault.triggerDelayBlocks * 2]

\* the record after a successful update (lines 476-478)
applyUpdate(vault, newBeneficiaries, currentBlock, t) ==
    [vault EXCEPT !.beneficiaries = newBeneficiaries,
                  !.unlockBlock = currentBlock + vault.triggerDelayBlocks,
                  !.unlockDate = t + vault.triggerDelayBlocks * 2]

\* the record after a successful distribution (line 567)
applyDistribute(vault) == [vault EXCEPT !.status = "Distributed"]

\* variant: only the Triggered status is rejected
NotActiveOnlyTriggered(vault) == vault.status = "Triggered"

\* the status check of checkin and updateBeneficiaries (lines 310, 409)
NotActive(vault) == vault.status # "Active"

\* what a vault operation does from its call to its first network await
vaultOpEntry(op, cache, storage) ==
    LET g == getVault(cache, storage, op.vaultId)
        fail(code, c) == [op |-> vaultOpCatch(op, CharmErr(code)),
                          cache |-> c]
    IN  IF op.kind = "update" /\ ~ validateBeneficiaries(op.bens)
        THEN fail("VALIDATION_ERROR", cache)
        ELSE IF ~ g.found
        THEN fail("VAULT_NOT_FOUND", cache)
        ELSE IF op.kind = "dist"
        THEN [op |-> [op EXCEPT !.pc = "height"], cache |-> g.cache]
        ELSE IF NotActive(g.cache[op.vaultId])
        THEN fail("INVALID_VAULT_STATUS", g.cache)
        ELSE IF ~ walletConnected
        THEN fail("WALLET_NOT_CONNECTED", g.cache)
        ELSE [op |-> [op EXCEPT !.pc = "height"], cache |-> g.cache]

\* a call checkin(vaultId), updateBeneficiaries(vaultId, bens) or
\* distribute(vaultId) in session s
CallVaultOp(o, s, kind, vaultId, bens) ==
    LET op == [IdleOp EXCEPT !.kind = kind, !.sess = s, !.vaultId = vaultId,
                             !.bens = bens]
        r == vaultOpEntry(op, vaultsCache[s], vaultStorage)
    IN  /\ SetOp(o, r.op)
        /\ vaultsCache' = [vaultsCache EXCEPT ![s] = r.cache]
        /\ UNCHANGED <<wasmCache, storageState, now, height, walletConnected, utxos, lockStore, failedUTXOs,
                       vaultStorage>>

InVault(o, pc) == ops[o].kind \in VaultKinds /\ ops[o].pc = pc

TheVault(o) == vaultsCache[ops[o].sess][ops[o].vaultId]

VaultStep(o, op) ==
    /\ SetOp(o, op)
    /\ UNCHANGED <<wasmCache, storageState, now, height, walletConnected, utxos, lockStore, failedUTXOs,
                   vaultsCache, vaultStorage, calls>>

VaultThrow(o, e) ==
    VaultStep(o, vaultOpCatch(ops[o], e))

\* await bitcoinClient.getCurrentBlockHeight(); distribute then applies its gate
VaultHeight(o) ==
    /\ InVault(o, "height")
    /\ \/ LET op == [ops[o] EXCEPT !.curBlock = height,
                                   !.trace = @ \o <<Event("height", height)>>]
          IN  IF op.kind = "dist" /\ VaultLocked(height, TheVault(o))
              THEN VaultStep(o, vaultOpCatch(op, CharmErr("VAULT_LOCKED")))
              ELSE VaultStep(o, [op EXCEPT !.pc = "fee"])
       \/ VaultThrow(o, CharmErr("BITCOIN_ERROR"))

\* await bitcoinClient.getFeeEstimates(): falls back to defaults, never rejects
VaultFee(o) ==
    /\ InVault(o, "fee")
    /\ VaultStep(o, [ops[o] EXCEPT !.pc = "spell"])

\* await spellBuilder.buildCheckinSpell / buildUpdateBeneficiariesSpell /
\* buildDistributeSpell (which checks the deadline on the charm)
VaultSpell(o) ==
    /\ InVault(o, "spell")
    /\ \/ IF ops[o].kind = "dist" /\ DeadlineNotReached(ops[o].curBlock, TheVault(o))
          THEN VaultThrow(o, PlainErr)
          ELSE VaultStep(o, [ops[o] EXCEPT !.pc = "prevtx",
                                !.trace = @ \o <<Event("spell",
                                    buildVaultSpell(ops[o].kind, ops[o].vaultId,
                                        TheVault(o), ops[o].bens, ops[o].curBlock))>>])
       \/ VaultThrow(o, PlainErr)

\* await bitcoinClient.getRawTransaction(txid)
VaultPrevTx(o) ==
    /\ InVault(o, "prevtx")
    /\ \/ VaultStep(o, [ops[o] EXCEPT !.pc = "request"])
       \/ VaultThrow(o, CharmErr("BITCOIN_ERROR"))

\* proverClient.buildProverRequest(...) is called: as in CreateRequest
VaultRequest(o) ==
    /\ InVault(o, "request")
    /\ IF wasmCache[ops[o].sess]
       THEN VaultStep(o, [ops[o] EXCEPT !.pc = "prove",
                             !.trace = @ \o <<Event("prove", ops[o].vaultId)>>])
       ELSE VaultStep(o, [ops[o] EXCEPT !.pc = "wasm"])

\* await proverClient.proveSpell(proverRequest); distribute checks the wallet
\* here; then signTransaction(commitTx) is called
VaultProve(o) ==
    /\ InVault(o, "prove")
    /\ \/ LET resp == ProverResponse(ops[o].vaultId)
          IN  IF ops[o].kind = "dist" /\ ~ walletConnected
              THEN VaultThrow(o, CharmErr("WALLET_NOT_CONNECTED"))
              ELSE VaultStep(o, [ops[o] EXCEPT !.pc = "sign1", !.commitTx = resp[1],
                                    !.spellTx = resp[2],
                                    !.trace = @ \o <<Event("sign", resp[1])>>])
       \/ VaultThrow(o, CharmErr("PROVER_ERROR"))

\* await activeWallet.signTransaction(commitTx); then signTransaction(spellTx)
\* is called
VaultSign1(o) ==
    /\ InVault(o, "sign1")
    /\ \/ VaultStep(o, [ops[o] EXCEPT !.pc = "sign2",
                           !.signedCommitTx = WalletSign(ops[o].commitTx),
                           !.trace = @ \o <<Event("sign", ops[o].spellTx)>>])
       \/ VaultThrow(o, CharmErr("WALLET_ERROR"))

\* variant: the record is updated when the package is handed to the node,
\* before the node's answer
VaultSign2Optimistic(o) ==
    /\ InVault(o, "sign2")
    /\ \/ LET op == ops[o]
              signedSpellTx == WalletSign(op.spellTx)
              old == TheVault(o)
              vault == IF op.kind = "checkin" THEN applyCheckin(old, op.curBlock, now)
                       ELSE IF op.kind = "update"
                       THEN applyUpdate(old, op.bens, op.curBlock, now)
                       ELSE applyDistribute(old)
          IN  /\ vaultsCache' = [vaultsCache EXCEPT ![op.sess] = Put(@, vault.id, vault)]
              /\ vaultStorage' = Put(vaultStorage, vault.id, vault)
              /\ SetOp(o, [op EXCEPT !.pc = "broadcast", !.spellTx = signedSpellTx,
                                     !.trace = @ \o <<Event("rpc",
                                         broadcastPackage(op.signedCommitTx, signedSpellTx))>>])
              /\ UNCHANGED <<wasmCache, storageState, now, height, walletConnected, utxos, lockStore,
                             failedUTXOs, calls>>
       \/ VaultThrow(o, CharmErr("WALLET_ERROR"))

\* await activeWallet.signTransaction(spellTx); then broadcastPackage is called
VaultSign2(o) ==
    /\ InVault(o, "sign2")
    /\ \/ LET signedSpellTx == WalletSign(ops[o].spellTx)
          IN  VaultStep(o, [ops[o] EXCEPT !.pc = "broadcast",
                               !.spellTx = signedSpellTx,
                               !.trace = @ \o <<Event("rpc",
                                   broadcastPackage(ops[o].signedCommitTx, signedSpellTx))>>])
       \/ VaultThrow(o, CharmErr("WALLET_ERROR"))

\* await bitcoinClient.broadcastPackage(signedCommitTx, signedSpellTx); then
\* the vault object is updated and saved
VaultBroadcast(o) ==
    /\ InVault(o, "broadcast")
    /\ \/ LET op == ops[o]
              old == TheVault(o)
              vault == IF op.kind = "checkin" THEN applyCheckin(old, op.curBlock, now)
                       ELSE IF op.kind = "update"
                       THEN applyUpdate(old, op.bens, op.curBlock, now)
                       ELSE applyDistribute(old)
          IN  /\ vaultsCache' = [vaultsCache EXCEPT ![op.sess] = Put(@, vault.id, vault)]
              /\ vaultStorage' = Put(vaultStorage, vault.id, vault)
              /\ SetOp(o, Returned(op, TxidOf(op.spellTx), <<>>))
              /\ UNCHANGED <<wasmCache, storageState, now, height, walletConnected, utxos, lockStore,
                             failedUTXOs, calls>>
       \/ VaultThrow(o, CharmErr("BITCOIN_ERROR"))

----------------------------------------------------------------------------
(* ProverClient.loadContractWasm (proverClient.ts 21-50), from its fetch on *)

\* await fetch(wasmPath), await response.arrayBuffer(): the binary is encoded
\* and cached, buildProverRequest returns the request and proveSpell posts
\* it; or the load fails and buildProverRequest throws a ProverError
loadContractWasm(o) ==
    /\ ops[o].pc = "wasm"
    /\ \/ /\ wasmCache' = [wasmCache EXCEPT ![ops[o].sess] = TRUE]
          /\ SetOp(o, [ops[o] EXCEPT
                         !.pc = "prove",
                         !.trace = @ \o <<Event("prove",
                             IF ops[o].kind = "create" THEN UtxoId(ops[o].utxo)
                             ELSE ops[o].vaultId)>>])
          /\ UNCHANGED <<storageState, now, height, walletConnected, utxos, lockStore,
                         failedUTXOs, vaultsCache, vaultStorage, calls>>
       \/ IF ops[o].kind = "create"
          THEN CreateThrow(o, CharmErr("PROVER_ERROR"), <<>>)
          ELSE VaultThrow(o, CharmErr("PROVER_ERROR"))

----------------------------------------------------------------------------
(* Sequential use of one session: the next call starts when the previous   *)
(* one has returned or thrown, in the task slot the previous call used.     *)

Call(o) ==
    /\ calls < MaxCalls
    /\ o = 1
    /\ \A p \in Ops : ~ InFlight(p)
    /\ calls' = calls + 1
    /\ \/ \E amount \in VaultAmounts, delay \in Delays :
            CallCreateVault(o, "tab1", amount, <<Ben("b1", 100)>>, delay)
       \/ \E bens \in BenLists : CallCreateVault(o, "tab1", 4000, bens, 1)
       \/ \E vaultId \in DOMAIN vaultStorage \cup {MissingVaultId} :
            \/ CallVaultOp(o, "tab1", "checkin", vaultId, <<>>)
            \/ CallVaultOp(o, "tab1", "dist", vaultId, <<>>)
            \/ \E bens \in BenLists : CallVaultOp(o, "tab1", "update", vaultId, bens)

----------------------------------------------------------------------------
(* Environment *)

Tick ==
    /\ now < MaxTime
    /\ now' = now + 1
    /\ UNCHANGED <<wasmCache, storageState, height, walletConnected, utxos, lockStore, failedUTXOs,
                   vaultsCache, vaultStorage, ops, calls>>

NewBlock ==
    /\ height < MaxHeight
    /\ height' = height + 1
    /\ UNCHANGED <<wasmCache, storageState, now, walletConnected, utxos, lockStore, failedUTXOs,
                   vaultsCache, vaultStorage, ops, calls>>

\* the user connects or disconnects the wallet extension
WalletChange ==
    /\ walletConnected' = ~ walletConnected
    /\ UNCHANGED <<wasmCache, storageState, now, height, utxos, lockStore, failedUTXOs, vaultsCache,
                   vaultStorage, ops, calls>>

----------------------------------------------------------------------------
(* Specification of interleaved createVault invocations *)

Init ==
    /\ now = 0
    /\ height = 0
    /\ walletConnected = TRUE
    /\ utxos = Wallet
    /\ lockStore = <<>>
    /\ storageState = WorkingStorage
    /\ failedUTXOs = [s \in Sessions |-> EmptyMap]
    /\ vaultsCache = [s \in Sessions |-> EmptyMap]
    /\ vaultStorage = EmptyMap
    /\ ops = [o \in Ops |-> IdleOp]
    /\ calls = 0
    /\ wasmCache = [s \in Sessions |-> FALSE]

Next ==
    \/ \E o \in Ops : CreateStart(o)
    \/ \E o \in Ops : CreateHeight(o)
    \/ \E o \in Ops : CreateFee(o)
    \/ \E o \in Ops : CreateSpell(o)
    \/ \E o \in Ops : CreatePrevTx(o)
    \/ \E o \in Ops : CreateRequest(o)
    \/ \E o \in Ops : loadContractWasm(o)
    \/ \E o \in Ops : CreateProve(o)
    \/ \E o \in Ops : CreateImport(o)
    \/ \E o \in Ops : CreateBroadcast1(o)
    \/ \E o \in Ops : CreateSign(o)
    \/ \E o \in Ops : CreateBroadcast2(o)
    \/ Tick

Spec == Init /\ [][Next]_vars

----------------------------------------------------------------------------
(* Specification of one session calling the four operations in sequence *)

NextVault ==
    \/ \E o \in Ops : Call(o)
    \/ \E o \in Ops : CreateHeight(o)
    \/ \E o \in Ops : CreateFee(o)
    \/ \E o \in Ops : CreateSpell(o)
    \/ \E o \in Ops : CreatePrevTx(o)
    \/ \E o \in Ops : CreateRequest(o)
    \/ \E o \in Ops : loadContractWasm(o)
    \/ \E o \in Ops : CreateProve(o)
    \/ \E o \in Ops : CreateImport(o)
    \/ \E o \in Ops : CreateBroadcast1(o)
    \/ \E o \in Ops : CreateSign(o)
    \/ \E o \in Ops : CreateBroadcast2(o)
    \/ \E o \in Ops : VaultHeight(o)
    \/ \E o \in Ops : VaultFee(o)
    \/ \E o \in Ops : VaultSpell(o)
    \/ \E o \in Ops : VaultPrevTx(o)
    \/ \E o \in Ops : VaultRequest(o)
    \/ \E o \in Ops : VaultProve(o)
    \/ \E o \in Ops : VaultSign1(o)
    \/ \E o \in Ops : VaultSign2(o)
    \/ \E o \in Ops : VaultBroadcast(o)
    \/ NewBlock
    \/ WalletChange

SpecVault == Init /\ [][NextVault]_vars

----------------------------------------------------------------------------
(* Specification of the funding selector alone: selectFundingUTXO applied   *)
(* to every candidate list, lock registry, failure map and clock reading    *)
(* within the bounds.                                                       *)

Pool ==
    { [txid |-> "ta", vout |-> 0, value |-> 5000],
      [txid |-> "tb", vout |-> 0, value |-> 10000],
      [txid |-> "tb", vout |-> 1, value |-> 5000] }

PoolIds == {UtxoId(u) : u \in Pool}

NoRepeat(q) == \A i, j \in DOMAIN q : i # j => q[i] # q[j]

\* the wallet's UTXO snapshot: distinct outputs in any order
CandidateLists ==
    UNION {{q \in [1 .. n -> Pool] : NoRepeat(q)} : n \in 0 .. MaxCandidates}

\* a record as lockUTXO writes it at time t
LockRecord(id, t) ==
    [utxoId |-> id, lockedAt |-> t, lockType |-> "creating_vault",
     expiresAt |-> t + LOCK_TIMEOUT]

\* registries lockUTXO can have built by time t: one record per id at most
LockStores(t) ==
    UNION {{q \in [1 .. n -> {LockRecord(id, at) : id \in PoolIds, at \in 0 .. t}] :
               \A i, j \in DOMAIN q : i # j => q[i].utxoId # q[j].utxoId} :
           n \in 0 .. MaxLocks}

\* failure maps markUTXOFailed can have built by time t
FailureMaps(t) ==
    {EmptyMap} \cup
    {[x \in {id} |-> [count |-> 1, lastFailed |-> at]] : id \in PoolIds, at \in 0 .. t}

InitSelect ==
    /\ now \in 0 .. MaxTime
    /\ height = 0
    /\ walletConnected = TRUE
    /\ utxos \in CandidateLists
    /\ lockStore \in LockStores(now)
    /\ storageState = WorkingStorage
    /\ failedUTXOs \in {[s \in Sessions |-> IF s = "tab1" THEN f ELSE EmptyMap] :
                           f \in FailureMaps(now)}
    /\ vaultsCache = [s \in Sessions |-> EmptyMap]
    /\ vaultStorage = EmptyMap
    /\ ops = [o \in Ops |-> IdleOp]
    /\ calls = 0
    /\ wasmCache = [s \in Sessions |-> FALSE]

\* this.selectFundingUTXO(walletState.utxos, amount) in session tab1
SelectCall(o) ==
    /\ o = 1
    /\ ops[o].pc = "idle"
    /\ \E amount \in Amounts :
         /\ SetOp(o, [IdleOp EXCEPT !.kind = "select", !.pc = "done", !.amount = amount,
                        !.utxo = selectFundingUTXO(utxos, lockStore, failedUTXOs["tab1"],
                                                   amount, now)])
         /\ lockStore' = selectFundingStore(utxos, lockStore, amount, now)
    /\ UNCHANGED <<wasmCache, storageState, now, height, walletConnected, utxos, failedUTXOs, vaultsCache,
                   vaultStorage, calls>>

NextSelect == \E o \in Ops : SelectCall(o)

SpecSelect == InitSelect /\ [][NextSelect]_vars

----------------------------------------------------------------------------
(* History helpers *)

HasEv(tr, ev) == \E i \in DOMAIN tr : tr[i].ev = ev

FirstEv(tr, ev) ==
    CHOOSE i \in DOMAIN tr : tr[i].ev = ev /\ \A j \in 1 .. (i - 1) : tr[j].ev # ev

LastEv(tr, ev) ==
    CHOOSE i \in DOMAIN tr : tr[i].ev = ev /\ \A j \in (i + 1) .. Len(tr) : tr[j].ev # ev

EvCount(tr, ev) == Cardinality({i \in DOMAIN tr : tr[i].ev = ev})

Exits(o) == InFlight(o) /\ ops'[o].pc \in {"done", "failed"}

----------------------------------------------------------------------------
(* Claims about interleaved createVault invocations (Spec) *)

\* C1: whenever a createVault invocation that locked its funding UTXO
\* terminates, by returning or by failing at any step after the lock, the
\* lock registry holds no record for that UTXO id.
LockReleasedOnExit ==
    [][\A o \in Ops :
          (ops[o].kind = "create" /\ Exits(o))
              => ~ HasRecord(lockStore', UtxoId(ops[o].utxo))]_vars

\* a state in which one invocation has returned and another has failed after
\* its lock, and neither funding UTXO has a record
LockReleasedWitness ==
    \E a, b \in Ops :
        /\ ops[a].kind = "create" /\ ops[a].pc = "done"
        /\ ops[b].kind = "create" /\ ops[b].pc = "failed"
        /\ HasEv(ops[a].trace, "lock") /\ HasEv(ops[b].trace, "lock")
        /\ HasEv(ops[b].trace, "prove")
        /\ ~ HasRecord(lockStore, UtxoId(ops[a].utxo))
        /\ ~ HasRecord(lockStore, UtxoId(ops[b].utxo))

\* C2: no two createVault invocations that have each selected a funding UTXO
\* and not yet terminated use the same UTXO id, also when one of them stays
\* suspended for longer than the lock TTL.
NoSharedFundingUTXO ==
    \A a, b \in Ops :
        (a # b /\ ops[a].kind = "create" /\ ops[b].kind = "create"
               /\ InFlight(a) /\ InFlight(b))
            => UtxoId(ops[a].utxo) # UtxoId(ops[b].utxo)

\* C6: in every createVault run the lock is written before the spell is
\* assembled, the spell before the proof request, the proof request before
\* the first package submission, and the unlock comes after the last
\* package submission; a run that returns has gone through all of them.
CreateOrder ==
    \A o \in Ops :
        LET tr == ops[o].trace IN
        ops[o].kind = "create" =>
            /\ tr # <<>> => tr[1].ev = "lock"
            /\ EvCount(tr, "lock") <= 1
            /\ HasEv(tr, "spell") => FirstEv(tr, "lock") < FirstEv(tr, "spell")
            /\ HasEv(tr, "prove") =>
                   HasEv(tr, "spell") /\ FirstEv(tr, "spell") < FirstEv(tr, "prove")
            /\ HasEv(tr, "rpc") =>
                   HasEv(tr, "prove") /\ FirstEv(tr, "prove") < FirstEv(tr, "rpc")
            /\ \A i, j \in DOMAIN tr :
                   (tr[i].ev = "unlock" /\ tr[j].ev \in {"lock", "spell", "prove", "rpc", "sign"})
                       => (j < i /\ tr[i].arg = tr[FirstEv(tr, "lock")].arg)
            /\ InFlight(o) => (HasEv(tr, "lock") /\ ~ HasEv(tr, "unlock"))
            /\ ops[o].pc = "done" =>
                   (HasEv(tr, "rpc") /\ HasEv(tr, "unlock")
                      /\ LastEv(tr, "rpc") < FirstEv(tr, "unlock"))

\* a run that returned after the signed resubmission: two submissions, then
\* the unlock
CreateOrderWitness ==
    \E o \in Ops :
        /\ ops[o].kind = "create" /\ ops[o].pc = "done"
        /\ EvCount(ops[o].trace, "rpc") = 2
        /\ ops[o].trace[Len(ops[o].trace)].ev = "unlock"

----------------------------------------------------------------------------
(* Claims about the four operations called in sequence (SpecVault) *)

\* the UTXO id an operation names in its proof request
OpReq(op) == IF op.kind = "create" THEN UtxoId(op.utxo) ELSE op.vaultId

Percentages(bens) == [i \in DOMAIN bens |-> bens[i].percentage]

\* the record getVault hands to an operation of session s
RecordOf(s, id) ==
    IF id \in DOMAIN vaultsCache[s] THEN vaultsCache[s][id] ELSE vaultStorage[id]

Known(s, id) == id \in DOMAIN vaultsCache[s] \cup DOMAIN vaultStorage

\* a step in which slot o starts a new invocation
Starts(o) == ~ InFlight(o) /\ ops'[o] # ops[o]

\* C3: in every operation, the second element of every package submission is
\* the spell transaction exactly as the proof service returned it, and the
\* spell transaction is never handed to the wallet signer.
SpellTxUnaltered ==
    \A o \in Ops :
        \A i \in DOMAIN ops[o].trace :
            LET e == ops[o].trace[i] IN
            /\ e.ev = "rpc" => e.arg.params[2] = ProverResponse(OpReq(ops[o]))[2]
            /\ e.ev = "sign" => e.arg.role # "spell"

\* C4: every broadcast of every operation is one submitpackage call whose
\* parameter is the pair (commit transaction, spell transaction) of that
\* operation's proof.
OnePackagePerBroadcast ==
    \A o \in Ops :
        \A i \in DOMAIN ops[o].trace :
            LET e == ops[o].trace[i] IN
            e.ev = "rpc" =>
                /\ e.arg.method = "submitpackage"
                /\ Len(e.arg.params) = 2
                /\ e.arg.params[1].role = "commit"
                /\ e.arg.params[2].role = "spell"
                /\ e.arg.params[1].req = OpReq(ops[o])
                /\ e.arg.params[2].req = OpReq(ops[o])

\* an update of an existing vault that returned after its package submission
OnePackageWitness ==
    \E o \in Ops :
        /\ ops[o].kind = "update" /\ ops[o].pc = "done"
        /\ EvCount(ops[o].trace, "rpc") = 1

\* C5: in every operation the first package submission carries the two
\* transactions as the proof service returned them, the wallet signer is
\* invoked only after a submission, only on the commit transaction and at
\* most once, and at most one resubmission follows.
SignOnlyAfterFailedSubmission ==
    \A o \in Ops :
        LET tr == ops[o].trace IN
        /\ HasEv(tr, "rpc") =>
               tr[FirstEv(tr, "rpc")].arg.params = ProverResponse(OpReq(ops[o]))
        /\ \A i \in DOMAIN tr :
               tr[i].ev = "sign" =>
                   /\ HasEv(tr, "rpc") /\ FirstEv(tr, "rpc") < i
                   /\ tr[i].arg.role = "commit"
        /\ EvCount(tr, "sign") <= 1
        /\ EvCount(tr, "rpc") <= 2
        /\ EvCount(tr, "rpc") = 2 => HasEv(tr, "sign")

\* the fields of a vault record that claims about the deadline and the
\* terminal status speak of
SameTerms(a, b) ==
    /\ a.status = b.status
    /\ a.beneficiaries = b.beneficiaries
    /\ a.unlockBlock = b.unlockBlock

\* a step in which a createVault returns, writing its vault record
CreateReturns == \E o \in Ops : ops[o].kind = "create" /\ Exits(o) /\ ops'[o].pc = "done"

\* a step in which an operation of the given kinds returns at height-read h
\* for vault id
ReturnsAt(kinds, id, h) ==
    \E o \in Ops :
        /\ ops[o].kind \in kinds /\ Exits(o) /\ ops'[o].pc = "done"
        /\ ops[o].curBlock = h
        /\ ops[o].kind # "create" => ops[o].vaultId = id

\* every recorded deadline is the height read by the last successful create,
\* check-in or update of that vault plus the vault's trigger delay
DeadlineIsLastCheckin ==
    \A id \in DOMAIN vaultStorage' :
        (id \notin DOMAIN vaultStorage
            \/ vaultStorage'[id].unlockBlock # vaultStorage[id].unlockBlock)
        => \E h \in 0 .. MaxHeight + 1 :
              /\ ReturnsAt({"create", "checkin", "update"}, id, h)
              /\ vaultStorage'[id].unlockBlock = h + vaultStorage'[id].triggerDelayBlocks
              /\ vaultsCache'["tab1"][id] = vaultStorage'[id]

\* the step of distribute that reads the chain height and applies the gate
DistributeGateStep ==
    \A o \in Ops :
        (ops[o].kind = "dist" /\ ops[o].pc = "height" /\ ops'[o] # ops[o]) =>
            LET deadline == RecordOf(ops[o].sess, ops[o].vaultId).unlockBlock
                fetched == HasEv(ops'[o].trace, "height")
            IN  /\ (fetched /\ height <= deadline) =>
                       /\ ops'[o].pc = "failed"
                       /\ ops'[o].err = "VAULT_LOCKED"
                       /\ UNCHANGED <<vaultsCache, vaultStorage>>
                /\ (fetched /\ height > deadline) => ops'[o].pc = "fee"
                /\ ops'[o].err = "VAULT_LOCKED" => (fetched /\ height <= deadline)

\* a distribute that got past the gate read a height above the deadline; one
\* rejected by the gate sent no proof request and no package
DistributeGateState ==
    \A o \in Ops :
        ops[o].kind = "dist" =>
            /\ (InFlight(o) /\ ops[o].pc # "height") =>
                   ops[o].curBlock > RecordOf(ops[o].sess, ops[o].vaultId).unlockBlock
            /\ ops[o].pc = "height" => ops[o].trace = <<>>
            /\ ops[o].err = "VAULT_LOCKED" =>
                   (~ HasEv(ops[o].trace, "prove") /\ ~ HasEv(ops[o].trace, "rpc"))

DistributedStays ==
    ~ CreateReturns =>
        /\ \A id \in DOMAIN vaultStorage :
               vaultStorage[id].status = "Distributed" =>
                   SameTerms(vaultStorage'[id], vaultStorage[id])
        /\ \A s \in Sessions : \A id \in DOMAIN vaultsCache[s] :
               vaultsCache[s][id].status = "Distributed" =>
                   SameTerms(vaultsCache'[s][id], vaultsCache[s][id])

\* a check-in or update called on a vault whose status is Distributed
StartsOnDistributed(o) ==
    /\ Starts(o)
    /\ ops'[o].kind \in {"checkin", "update"}
    /\ Known(ops'[o].sess, ops'[o].vaultId)
    /\ RecordOf(ops'[o].sess, ops'[o].vaultId).status = "Distributed"

ValidationFirst ==
    [][\A o \in Ops :
          (Starts(o) /\ ops'[o].kind \in {"create", "update"}) =>
              IF SumSeq(Percentages(ops'[o].bens)) # 100
              THEN /\ ops'[o].pc = "failed"
                   /\ ops'[o].err = "VALIDATION_ERROR"
                   /\ ops'[o].trace = <<>>
                   /\ ops'[o].utxo = NoUtxo
                   /\ UNCHANGED <<lockStore, failedUTXOs, vaultsCache, vaultStorage>>
              ELSE ops'[o].err # "VALIDATION_ERROR"]_vars

\* an update of an existing Active vault rejected for the list 30/30/30, with
\* no lock in the registry
ValidationFirstWitness ==
    \E o \in Ops :
        /\ ops[o].kind = "update" /\ ops[o].err = "VALIDATION_ERROR"
        /\ SumSeq(Percentages(ops[o].bens)) = 90
        /\ Known("tab1", ops[o].vaultId)
        /\ RecordOf("tab1", ops[o].vaultId).status = "Active"
        /\ lockStore = <<>>

----------------------------------------------------------------------------
(* Claims about the funding selector (SpecSelect) *)

\* candidate u may fund the amount: large enough, no unexpired lock on its
\* id, and not within the cooldown of a recorded failure
Eligible(u, amount) ==
    /\ u.value >= amount
    /\ ~ \E k \in DOMAIN lockStore :
             lockStore[k].utxoId = UtxoId(u) /\ now < lockStore[k].expiresAt
    /\ ~ (/\ UtxoId(u) \in DOMAIN failedUTXOs["tab1"]
          /\ now - failedUTXOs["tab1"][UtxoId(u)].lastFailed < FAILURE_COOLDOWN)

\* C10: the selector returns the eligible candidate of minimum value, the
\* first in candidate order when values tie, and returns none exactly when
\* no candidate is eligible.
SelectorReturnsFirstMinimum ==
    [][\A o \in Ops :
          (ops[o].pc = "idle" /\ ops'[o].kind = "select") =>
              LET amount == ops'[o].amount
                  elig == {i \in DOMAIN utxos : Eligible(utxos[i], amount)}
              IN  IF elig = {} THEN ops'[o].utxo = NoUtxo
                  ELSE \E i \in elig :
                          /\ ops'[o].utxo = utxos[i]
                          /\ \A j \in elig :
                                 \/ utxos[i].value < utxos[j].value
                                 \/ utxos[i].value = utxos[j].value /\ i <= j]_vars

\* the selector returned the second of two candidates of value 5000, the
\* first being under an unexpired lock, with a 10000 candidate also eligible
SelectorWitness ==
    \E o \in Ops :
        /\ ops[o].kind = "select" /\ ops[o].amount = 4000
        /\ Len(utxos) = 3
        /\ utxos[1].value = 5000 /\ utxos[2].value = 10000
        /\ ops[o].utxo = utxos[3]
        /\ isLocked(lockStore, UtxoId(utxos[1]), now)

----------------------------------------------------------------------------
(* Specification of createVault on a wallet part of which is unavailable:   *)
(* an earlier session was closed between lockUTXO and unlockUTXO and left   *)
(* its lock record behind.  One session, two invocations, any amount.       *)

\* the registry at the start: empty, or holding the record a closed session left
LeftBehind == {<<>>, <<LockRecord(<<"ta", 0>>, 0)>>}

InitFunds ==
    /\ now = 0
    /\ height = 0
    /\ walletConnected = TRUE
    /\ utxos = Wallet
    /\ lockStore \in LeftBehind
    /\ storageState = WorkingStorage
    /\ failedUTXOs = [s \in Sessions |-> EmptyMap]
    /\ vaultsCache = [s \in Sessions |-> EmptyMap]
    /\ vaultStorage = EmptyMap
    /\ ops = [o \in Ops |-> IdleOp]
    /\ calls = 0
    /\ wasmCache = [s \in Sessions |-> FALSE]

\* createVault(amount, ...) in session tab1, in the next free task slot
CreateStartFunds(o) ==
    /\ ops[o].pc = "idle"
    /\ \A p \in Ops : p < o => ops[p].pc # "idle"
    /\ \E amount \in Amounts : CallCreateVault(o, "tab1", amount, <<Ben("b1", 100)>>, 2)
    /\ UNCHANGED calls

NextFunds ==
    \/ \E o \in Ops : CreateStartFunds(o)
    \/ \E o \in Ops : CreateHeight(o)
    \/ \E o \in Ops : CreateFee(o)
    \/ \E o \in Ops : CreateSpell(o)
    \/ \E o \in Ops : CreatePrevTx(o)
    \/ \E o \in Ops : CreateRequest(o)
    \/ \E o \in Ops : loadContractWasm(o)
    \/ \E o \in Ops : CreateProve(o)
    \/ \E o \in Ops : CreateImport(o)
    \/ \E o \in Ops : CreateBroadcast1(o)
    \/ \E o \in Ops : CreateSign(o)
    \/ \E o \in Ops : CreateBroadcast2(o)
    \/ Tick

SpecFunds == InitFunds /\ [][NextFunds]_vars

----------------------------------------------------------------------------
(* Claims about createVault without an eligible funding UTXO (SpecFunds) *)

\* a createVault that failed because the selector returned none
NoneSelected(op) ==
    /\ op.kind = "create" /\ op.pc = "failed"
    /\ op.err = "INSUFFICIENT_FUNDS" /\ op.utxo = NoUtxo

\* no UTXO of the wallet has value >= the amount of the call
NoValue(op) == \A i \in DOMAIN utxos : utxos[i].value < op.amount

\* what the caller of a failed createVault receives
Reported(op) == <<op.err, op.msg>>

\* a createVault call made when no UTXO is eligible fails with
\* INSUFFICIENT_FUNDS, adds no lock record and sends nothing
NoneEligibleStep ==
    \A o \in Ops :
        (/\ Starts(o) /\ ops'[o].kind = "create"
         /\ ~ \E i \in DOMAIN utxos : Eligible(utxos[i], ops'[o].amount))
        => /\ NoneSelected(ops'[o])
           /\ ops'[o].trace = <<>>
           /\ Range(lockStore') \subseteq Range(lockStore)

\* the two causes are reported differently
CausesDistinguished ==
    \A a, b \in Ops :
        (/\ NoneSelected(ops[a]) /\ NoneSelected(ops[b])
         /\ NoValue(ops[a]) /\ ~ NoValue(ops[b]))
        => Reported(ops[a]) # Reported(ops[b])

\* C11: when createVault finds no eligible funding UTXO it fails with
\* INSUFFICIENT_FUNDS without locking anything and without any network call,
\* and what it reports differs between "no UTXO has value >= the amount" and
\* "a UTXO of sufficient value exists but each is locked or cooling down".
InsufficientFundsReported ==
    /\ [][NoneEligibleStep]_vars
    /\ [] CausesDistinguished

\* the part of C11 that does not depend on the message
InsufficientFundsFails == [][NoneEligibleStep]_vars

\* one call failed for lack of value, another while the only sufficient UTXO
\* was locked
BothCausesSeen ==
    \E a, b \in Ops :
        /\ NoneSelected(ops[a]) /\ NoneSelected(ops[b])
        /\ NoValue(ops[a]) /\ ~ NoValue(ops[b])

----------------------------------------------------------------------------
(* Specification of the lock registry alone: the four operations of         *)
(* UTXOLockService and the selection pass, called in any order from one     *)
(* page, on every stored value and storage condition within the bounds,     *)
(* with the clock advancing and the page reloading in between.  How         *)
(* localStorage answers is fixed for the lifetime of the page.              *)

InitLock ==
    /\ now \in 0 .. MaxTime
    /\ height = 0
    /\ walletConnected = TRUE
    /\ utxos = Wallet
    /\ storageState \in [form : StorageForms, access : StorageAccess]
    /\ lockStore \in IF storageState.form = "array" THEN LockStores(now) ELSE {<<>>}
    /\ failedUTXOs = [s \in Sessions |-> EmptyMap]
    /\ vaultsCache = [s \in Sessions |-> EmptyMap]
    /\ vaultStorage = EmptyMap
    /\ ops = [o \in Ops |-> IdleOp]
    /\ calls = 0
    /\ wasmCache = [s \in Sessions |-> FALSE]

\* one synchronous call into the registry: every operation starts with
\* load(); `after` is the list the operation hands to save(), `res` what it
\* returns to its caller
RegistryCall(o, kind, u, after, res) ==
    /\ o = 1
    /\ calls < MaxCalls
    /\ calls' = calls + 1
    /\ IF loadThrows(storageState)
       THEN /\ SetOp(o, [IdleOp EXCEPT !.kind = kind, !.pc = "failed", !.utxo = u,
                                       !.err = "SecurityError"])
            /\ UNCHANGED <<lockStore, storageState>>
       ELSE /\ SetOp(o, [IdleOp EXCEPT !.kind = kind, !.pc = "done", !.utxo = u,
                                       !.result = <<res>>])
            /\ lockStore' = save(load(lockStore, storageState), after, storageState)
            /\ storageState' = [storageState EXCEPT !.form = "array"]
    /\ UNCHANGED <<wasmCache, now, height, walletConnected, utxos, failedUTXOs,
                   vaultsCache, vaultStorage>>

\* utxoLockService.lockUTXO(utxoId, 'creating_savings'), the call of the
\* savings flow; the records already stored are those of the vault flow
LockCall(o) ==
    \E u \in Pool :
        RegistryCall(o, "lock", u,
                     lockUTXO(load(lockStore, storageState), UtxoId(u),
                              "creating_savings", now),
                     "void")

\* utxoLockService.unlockUTXO(utxoId)
UnlockCall(o) ==
    \E u \in Pool :
        RegistryCall(o, "unlock", u,
                     unlockUTXO(load(lockStore, storageState), UtxoId(u)), "void")

\* utxoLockService.isLocked(utxoId)
IsLockedCall(o) ==
    \E u \in Pool :
        LET list == load(lockStore, storageState) IN
        RegistryCall(o, "isLocked", u, isLockedStore(list, UtxoId(u), now),
                     IF isLocked(list, UtxoId(u), now) THEN "true" ELSE "false")

\* utxoLockService.clearExpiredLocks()
ClearExpiredCall(o) ==
    RegistryCall(o, "clearExpiredLocks", NoUtxo,
                 clearExpiredLocks(load(lockStore, storageState), now), "void")

\* one funding-selection pass: this.selectFundingUTXO(walletState.utxos, amount)
SelectPass(o) ==
    \E amount \in ContendedAmounts :
        LET list == load(lockStore, storageState) IN
        RegistryCall(o, "select",
                     selectFundingUTXO(utxos, list, failedUTXOs["tab1"], amount, now),
                     selectFundingStore(utxos, list, amount, now), "utxo")

\* the page is reloaded or reopened after a crash: module state starts afresh,
\* localStorage stays
Reload ==
    /\ \E o \in Ops : ops[o] # IdleOp
    /\ ops' = [o \in Ops |-> IdleOp]
    /\ failedUTXOs' = [s \in Sessions |-> EmptyMap]
    /\ vaultsCache' = [s \in Sessions |-> EmptyMap]
    /\ wasmCache' = [s \in Sessions |-> FALSE]
    /\ UNCHANGED <<now, height, walletConnected, utxos, lockStore, storageState,
                   vaultStorage, calls>>

NextLock ==
    \/ \E o \in Ops : LockCall(o)
    \/ \E o \in Ops : UnlockCall(o)
    \/ \E o \in Ops : IsLockedCall(o)
    \/ \E o \in Ops : ClearExpiredCall(o)
    \/ \E o \in Ops : SelectPass(o)
    \/ Reload
    \/ Tick

SpecLock == InitLock /\ [][NextLock]_vars

----------------------------------------------------------------------------
(* Claims about the lock registry (SpecLock) *)

\* a step that is a call of the given registry operation
Called(kind) == calls' # calls /\ ops'[1].kind = kind

\* the id the call was made with
Arg == UtxoId(ops'[1].utxo)

\* localStorage works and holds a JSON array (or nothing) under the lock key
Healthy == storageState = WorkingStorage

\* the list without its records for id x, the others in place
Without(list, x) == SelectSeq(list, LAMBDA r : r.utxoId # x)

OneRecordPerId ==
    \A i, j \in DOMAIN lockStore : i # j => lockStore[i].utxoId # lockStore[j].utxoId

LockContract ==
    (Called("lock") /\ Healthy) =>
        /\ ops'[1].pc = "done"
        /\ IF \E r \in Range(lockStore) : r.utxoId = Arg
           THEN lockStore' = lockStore
           ELSE /\ Len(lockStore') = Len(lockStore) + 1
                /\ SubSeq(lockStore', 1, Len(lockStore)) = lockStore
                /\ LET new == lockStore'[Len(lockStore')]
                   IN  /\ new.utxoId = Arg
                       /\ new.lockedAt = now
                       /\ new.expiresAt = now + LOCK_TIMEOUT
                       /\ new.lockType \in LockTypes

\* C12: lock(x) on an id that has a record leaves exactly one record for x,
\* with lockedAt, lockType and expiresAt as they were, and changes no other
\* record; lock(x) on an id without a record adds exactly one record, with
\* expiresAt = now + 15 minutes.
LockIsIdempotent == [] OneRecordPerId /\ [][LockContract]_vars

\* lock(x, 'creating_savings') returned on an id whose record, of the vault
\* flow and written earlier, is still the only one for x
LockIsIdempotentWitness ==
    /\ ops[1].kind = "lock" /\ ops[1].pc = "done"
    /\ HasRecord(lockStore, UtxoId(ops[1].utxo))
    /\ LET r == Find(lockStore, UtxoId(ops[1].utxo))
       IN  r.lockType = "creating_vault" /\ r.lockedAt < now
    /\ Len(lockStore) = 2

UnlockContract ==
    (Called("unlock") /\ Healthy) =>
        /\ ops'[1].pc = "done"
        /\ lockStore' = Without(lockStore, Arg)
        /\ ~ \E r \in Range(lockStore') : r.utxoId = Arg

\* C13: unlock(x) removes the record for x and leaves every other record as
\* it was; unlock(x) on an id without a record changes nothing and raises no
\* error; after unlock(x); unlock(x) there is no record for x.
UnlockRemovesOneRecord == [][UnlockContract]_vars

\* unlock(x) returned after an earlier call, x has no record and the record
\* of another id is still stored
UnlockRemovesOneRecordWitness ==
    /\ ops[1].kind = "unlock" /\ ops[1].pc = "done"
    /\ calls >= 2
    /\ ~ HasRecord(lockStore, UtxoId(ops[1].utxo))
    /\ Len(lockStore) >= 1

IsLockedContract ==
    (Called("isLocked") /\ Healthy) =>
        LET live == \E r \in Range(lockStore) : r.utxoId = Arg /\ now < r.expiresAt
        IN  /\ ops'[1].pc = "done"
            /\ ops'[1].result = <<IF live THEN "true" ELSE "false">>
            /\ lockStore' = IF live THEN lockStore ELSE Without(lockStore, Arg)

\* C14: isLocked(x) returns true exactly when a record for x exists with
\* now < expiresAt; when now >= expiresAt it returns false and the record
\* for x is removed, the other records staying as they were.
IsLockedExactlyWhenLive == [][IsLockedContract]_vars

\* isLocked(x) returned false at a time when a lock could have expired, and
\* an expired record of another id is still stored
IsLockedExactlyWhenLiveWitness ==
    /\ ops[1].kind = "isLocked" /\ ops[1].result = <<"false">>
    /\ ~ HasRecord(lockStore, UtxoId(ops[1].utxo))
    /\ \E r \in Range(lockStore) : now >= r.expiresAt

SweepContract ==
    /\ (Called("clearExpiredLocks") /\ Healthy) =>
           /\ ops'[1].pc = "done"
           /\ lockStore' = SelectSeq(lockStore, LAMBDA r : now < r.expiresAt)
    /\ (Called("select") /\ Healthy) =>
           /\ \A r \in Range(lockStore') : now < r.expiresAt
           /\ \A r \in Range(lockStore) : now < r.expiresAt => r \in Range(lockStore')

\* C15: clearExpiredLocks removes exactly the records with now >= expiresAt,
\* keeps every unexpired record as it was, and has run before every
\* funding-selection pass.
SweepRemovesExpired == [][SweepContract]_vars

\* a selection pass returned at a time when locks could have expired, and an
\* unexpired record survived it
SweepRemovesExpiredWitness ==
    /\ ops[1].kind = "select" /\ ops[1].pc = "done"
    /\ now >= LOCK_TIMEOUT
    /\ Len(lockStore) >= 1

\* the ids a registry built afresh on the stored value reports as locked
LockedIds(store, st, t) ==
    {id \in PoolIds : \E r \in Range(load(store, st)) : r.utxoId = id /\ t < r.expiresAt}

PersistedStep ==
    LET before == LockedIds(lockStore, storageState, now)
        after == LockedIds(lockStore', storageState', now')
    IN  /\ (Called("lock") /\ Healthy) =>
               after = before \cup (IF HasRecord(lockStore, Arg) THEN {} ELSE {Arg})
        /\ (Called("unlock") /\ Healthy) =>
               /\ after = before \ {Arg}
               /\ ~ HasRecord(lockStore', Arg)
        /\ (Called("isLocked") /\ Healthy) =>
               /\ after = before
               /\ ~ \E r \in Range(lockStore') : r.utxoId = Arg /\ now >= r.expiresAt
        /\ (Called("clearExpiredLocks") /\ Healthy) =>
               /\ after = before
               /\ ~ \E r \in Range(lockStore') : now >= r.expiresAt
        /\ Reload => (after = before /\ lockStore' = lockStore)

\* C16: every lock, unlock and expiry eviction is in the persisted store when
\* the call returns, so a registry started afresh after a crash or reload
\* reports the same set of locked ids as before.
LocksArePersisted == [][PersistedStep]_vars

\* the page was reloaded after a lock written in this run, and the id is
\* still reported locked
LocksArePersistedWitness ==
    /\ calls > 0
    /\ \A o \in Ops : ops[o] = IdleOp
    /\ \E r \in Range(lockStore) :
           /\ r.lockType = "creating_savings"
           /\ r.utxoId \in LockedIds(lockStore, storageState, now)

\* C17: when reading or writing the persisted store fails, or the stored
\* value is missing, unparsable or not an array, lock, unlock, isLocked and
\* clearExpiredLocks raise no error; the registry behaves as holding no locks
\* (isLocked returns false for every id) and a corrupt value is reset.
RegistryFailsOpen ==
    [][\A kind \in {"lock", "unlock", "isLocked", "clearExpiredLocks"} :
          (Called(kind) /\ ~ Healthy) =>
              /\ ops'[1].pc = "done"
              /\ (kind = "isLocked" /\ (storageState.form # "array"
                                        \/ storageState.access = "blocked"))
                     => ops'[1].result = <<"false">>
              /\ storageState.form # "array" =>
                     (storageState'.form = "array" /\ Len(lockStore') <= 1)]_vars

\* the same without storage whose every access throws
RegistryFailsOpenWhenReadable ==
    [][\A kind \in {"lock", "unlock", "isLocked", "clearExpiredLocks"} :
          (Called(kind) /\ ~ Healthy /\ storageState.access # "blocked") =>
              /\ ops'[1].pc = "done"
              /\ (kind = "isLocked" /\ storageState.form # "array")
                     => ops'[1].result = <<"false">>
              /\ storageState.form # "array" =>
                     (storageState'.form = "array" /\ Len(lockStore') <= 1)]_vars

----------------------------------------------------------------------------
(* Claims about the failure cooldown (Spec) *)

\* the step in which the proof service rejects the request of slot o with
\* 'duplicate funding UTXO'
DuplicateRejected(o) ==
    /\ ops[o].kind = "create" /\ InFlight(o)
    /\ HasEv(ops'[o].trace, "rejected") /\ ~ HasEv(ops[o].trace, "rejected")

FailureCount(s, id) ==
    IF id \in DOMAIN failedUTXOs[s] THEN failedUTXOs[s][id].count ELSE 0

DuplicateStep ==
    \A o \in Ops :
        DuplicateRejected(o) =>
            LET id == UtxoId(ops[o].utxo)
                s == ops[o].sess
            IN  /\ ops'[o].pc = "failed"
                /\ ops'[o].err = "DUPLICATE_UTXO"
                /\ ~ HasRecord(lockStore', id)
                /\ id \in DOMAIN failedUTXOs'[s]
                /\ failedUTXOs'[s][id] =
                       [count |-> FailureCount(s, id) + 1, lastFailed |-> now]

\* a createVault call that selected a UTXO did not select one whose failure
\* its session recorded less than the cooldown ago
CooldownStep ==
    \A o \in Ops :
        (Starts(o) /\ ops'[o].kind = "create" /\ ops'[o].pc = "height") =>
            LET failed == failedUTXOs[ops'[o].sess]
            IN  \A id \in DOMAIN failed :
                    now - failed[id].lastFailed < FAILURE_COOLDOWN
                        => UtxoId(ops'[o].utxo) # id

----------------------------------------------------------------------------
(* Claims about what createVault leaves behind (SpecVault) *)

\* a step in which slot o's createVault returns
CreateReturnsIn(o) == ops[o].kind = "create" /\ Exits(o) /\ ops'[o].pc = "done"

\* the returning createVault of slot o wrote exactly one record, Active, due
\* at the height it read plus the delay, under the id of output 0 of its
\* spell transaction, to the cache and to storage
CreateWritesVault(o, id) ==
    /\ id = <<TxidOf(ops[o].spellTx), 0>>
    /\ id \in DOMAIN vaultStorage'
    /\ \A other \in DOMAIN vaultStorage' \ {id} :
           other \in DOMAIN vaultStorage /\ vaultStorage'[other] = vaultStorage[other]
    /\ vaultStorage'[id].id = id
    /\ vaultStorage'[id].status = "Active"
    /\ vaultStorage'[id].unlockBlock = ops[o].curBlock + ops[o].delay
    /\ vaultStorage'[id].triggerDelayBlocks = ops[o].delay
    /\ vaultsCache'[ops[o].sess] = Put(vaultsCache[ops[o].sess], id, vaultStorage'[id])

\* C19: a successful createVault creates exactly one Vault record, with
\* status Active, unlockBlock = currentBlock + triggerDelayBlocks and id
\* '<spellTxid>:0', persists it, and returns that vault id, so that getVault,
\* checkin, updateBeneficiaries and distribute called with the returned value
\* find the vault.
CreateReturnsVaultId ==
    [][\A o \in Ops :
          CreateReturnsIn(o) =>
              \E id \in DOMAIN vaultStorage' :
                  /\ CreateWritesVault(o, id)
                  /\ ops'[o].result = id
                  /\ getVault(vaultsCache'[ops[o].sess], vaultStorage',
                              ops'[o].result).found]_vars

\* the part of C19 about the record
CreateStoresVault ==
    [][\A o \in Ops :
          CreateReturnsIn(o) =>
              \E id \in DOMAIN vaultStorage' : CreateWritesVault(o, id)]_vars

\* the returning check-in of a slot leaves the vault Active and due at the
\* height it read plus the vault's delay, in the cache and in storage
CheckinResets ==
    \A o \in Ops :
        (ops[o].kind = "checkin" /\ Exits(o) /\ ops'[o].pc = "done") =>
            LET id == ops[o].vaultId
                h == ops[o].curBlock
            IN  /\ id \in DOMAIN vaultStorage'
                /\ vaultStorage'[id].status = "Active"
                /\ vaultStorage'[id].unlockBlock = h + vaultStorage[id].triggerDelayBlocks
                /\ vaultStorage'[id].triggerDelayBlocks = vaultStorage[id].triggerDelayBlocks
                /\ vaultsCache'[ops[o].sess][id] = vaultStorage'[id]

----------------------------------------------------------------------------
(* Update of the beneficiaries *)

\* the returning update of a slot leaves the vault Active, with the list it
\* was called with and due at the height it read plus the vault's delay, in
\* the cache and in storage
UpdateReplaces ==
    \A o \in Ops :
        (ops[o].kind = "update" /\ Exits(o) /\ ops'[o].pc = "done") =>
            LET id == ops[o].vaultId
                h == ops[o].curBlock
            IN  /\ id \in DOMAIN vaultStorage'
                /\ vaultStorage'[id].beneficiaries = ops[o].bens
                /\ vaultStorage'[id].status = "Active"
                /\ vaultStorage'[id].unlockBlock = h + vaultStorage[id].triggerDelayBlocks
                /\ vaultStorage'[id].triggerDelayBlocks = vaultStorage[id].triggerDelayBlocks
                /\ vaultsCache'[ops[o].sess][id] = vaultStorage'[id]

----------------------------------------------------------------------------
(* Specification of vaults created from one large UTXO and distributed *)

PayoutWallet == << [txid |-> "ta", vout |-> 0, value |-> 100000] >>

\* vault amounts below the fee reserve, inexact as BTC, and the whole UTXO
PayoutAmounts == {1000, 3055, 100000}

\* lists whose percentages sum to 100
PayoutLists == ValidLists \cup { <<Ben("b1", 150), Ben("b2", -50)>> }

InitPayout ==
    /\ now = 0
    /\ height = 0
    /\ walletConnected = TRUE
    /\ utxos = PayoutWallet
    /\ lockStore = <<>>
    /\ storageState = WorkingStorage
    /\ failedUTXOs = [s \in Sessions |-> EmptyMap]
    /\ vaultsCache = [s \in Sessions |-> EmptyMap]
    /\ vaultStorage = EmptyMap
    /\ ops = [o \in Ops |-> IdleOp]
    /\ calls = 0
    /\ wasmCache = [s \in Sessions |-> FALSE]

\* session tab1 calls createVault or distribute when no call is in flight
CallPayout(o) ==
    /\ calls < MaxCalls
    /\ o = 1
    /\ \A p \in Ops : ~ InFlight(p)
    /\ calls' = calls + 1
    /\ \/ \E amount \in PayoutAmounts, bens \in PayoutLists :
            CallCreateVault(o, "tab1", amount, bens, 1)
       \/ \E vaultId \in DOMAIN vaultStorage :
            CallVaultOp(o, "tab1", "dist", vaultId, <<>>)

NextPayout ==
    \/ \E o \in Ops : CallPayout(o)
    \/ \E o \in Ops : CreateHeight(o)
    \/ \E o \in Ops : CreateFee(o)
    \/ \E o \in Ops : CreateSpell(o)
    \/ \E o \in Ops : CreatePrevTx(o)
    \/ \E o \in Ops : CreateRequest(o)
    \/ \E o \in Ops : loadContractWasm(o)
    \/ \E o \in Ops : CreateProve(o)
    \/ \E o \in Ops : CreateImport(o)
    \/ \E o \in Ops : CreateBroadcast1(o)
    \/ \E o \in Ops : CreateSign(o)
    \/ \E o \in Ops : CreateBroadcast2(o)
    \/ \E o \in Ops : VaultHeight(o)
    \/ \E o \in Ops : VaultFee(o)
    \/ \E o \in Ops : VaultSpell(o)
    \/ \E o \in Ops : VaultPrevTx(o)
    \/ \E o \in Ops : VaultRequest(o)
    \/ \E o \in Ops : VaultProve(o)
    \/ \E o \in Ops : VaultSign1(o)
    \/ \E o \in Ops : VaultSign2(o)
    \/ \E o \in Ops : VaultBroadcast(o)
    \/ NewBlock

SpecPayout == InitPayout /\ [][NextPayout]_vars

----------------------------------------------------------------------------
(* Amounts of the distribute spell *)

\* the step in which slot o builds the spell of kind k
BuildsSpell(o, k) ==
    /\ ops[o].kind = k /\ ops[o].pc = "spell"
    /\ ops'[o].pc = "prevtx"

\* the spell slot o has just built
BuiltSpell(o) == ops'[o].trace[Len(ops'[o].trace)].arg

RECURSIVE TotalSats(_)
TotalSats(outs) ==
    IF outs = <<>> THEN 0 ELSE Head(outs).sats + TotalSats(Tail(outs))

\* output i of a distribute spell is floor((V - 2000) * p_i / 100), and
\* the outputs sum to at most V - 2000 and to at most V
SharesStep ==
    \A o \in Ops :
        BuildsSpell(o, "dist") =>
            LET V == vaultValue(TheVault(o))
                bens == TheVault(o).beneficiaries
                outs == BuiltSpell(o).outs
            IN  /\ validateBeneficiaries(bens)
                /\ DOMAIN outs = DOMAIN bens
                /\ \A i \in DOMAIN outs :
                       outs[i].sats = ((V - 2000) * bens[i].percentage) \div 100
                /\ TotalSats(outs) <= V - 2000
                /\ TotalSats(outs) <= V

\* no output of a distribute spell is negative
NonNegativeStep ==
    \A o \in Ops :
        BuildsSpell(o, "dist") =>
            \A i \in DOMAIN BuiltSpell(o).outs : BuiltSpell(o).outs[i].sats >= 0

\* C22: for every vault of value V the system holds and every beneficiary
\* list accepted by validation, the distribute spell pays beneficiary i
\* exactly floor((V - 2000) * p_i / 100) sats, every output is >= 0, and the
\* outputs sum to at most V - 2000 and never exceed the input value.
DistributePayouts == [][SharesStep /\ NonNegativeStep]_vars

\* the part of C22 about the shares and their sum
DistributeShares == [][SharesStep]_vars

\* the distribute spell of a vault of 100000 sats with shares 60 and 40 has
\* been built and pays 58800 and 39200
DistributeSharesExample ==
    \E o \in Ops :
        /\ ops[o].kind = "dist" /\ HasEv(ops[o].trace, "spell")
        /\ LET outs == ops[o].trace[FirstEv(ops[o].trace, "spell")].arg.outs
           IN  /\ Len(outs) = 2
               /\ outs[1].sats = 58800 /\ outs[2].sats = 39200

----------------------------------------------------------------------------
(* Errors reported to the caller *)

\* the code an operation wraps a value with that is not a CharmVaultError
OwnCode(kind) ==
    IF kind = "create" THEN "CREATE_VAULT_ERROR"
    ELSE IF kind = "checkin" THEN "CHECKIN_ERROR"
    ELSE IF kind = "update" THEN "UPDATE_ERROR"
    ELSE "DISTRIBUTE_ERROR"

\* a CharmVaultError keeps its code, any other value gets the own code
KeptOrWrapped(op) ==
    op.err = IF op.cause.cls = "CharmVaultError" THEN op.cause.code
             ELSE OwnCode(op.kind)

\* the proof service's duplicate rejection of a selected funding UTXO
DuplicateCaught(op) == op.kind = "create" /\ op.cause.dup /\ op.utxo # NoUtxo

\* an operation that returned caught nothing and went through its proof
\* request and its package submission
SuccessIsReal(op) ==
    op.pc = "done" =>
        /\ op.err = "none" /\ op.cause = NoErr
        /\ HasEv(op.trace, "prove") /\ HasEv(op.trace, "rpc")

ErrorsWrappedWitness ==
    \E o \in Ops :
        /\ ops[o].pc = "failed" /\ ops[o].kind = "checkin"
        /\ ops[o].cause.cls = "Error" /\ ops[o].err = "CHECKIN_ERROR"

----------------------------------------------------------------------------
(* The proof response (proverClient.ts 72-96).  A JavaScript value is a     *)
(* string (its text a sequence of tokens), a one-property object, or null.  *)

JsString(text) == [type |-> "string", text |-> text]
JsObject(key, value) == [type |-> "object", key |-> key, value |-> value]
JsNull == [type |-> "null"]
Undefined == [type |-> "undefined"]

\* a transaction's hex text
Hex(h) == JsString(<<h>>)

\* JSON.stringify of a string or of a one-property object holding a string
stringifyValue(v) ==
    IF v.type = "string" THEN JsString(<<"\"">> \o v.text \o <<"\"">>)
    ELSE JsString(<<"{\"", v.key, "\":\"">> \o v.value.text \o <<"\"}">>)

\* (v as any).bitcoin on a string or an object
bitcoinOf(v) ==
    IF v.type = "object" /\ v.key = "bitcoin" THEN v.value ELSE Undefined

\* a || b
OrElse(a, b) == IF a = Undefined THEN b ELSE a

\* what proveSpell makes of response.data: the pair it returns, or the
\* failure it rethrows as a ProverError (reading a property of null throws)
adaptResponse(response) ==
    LET commitTxData == response[1]
        spellTxData == response[2]
    IN  IF commitTxData.type = "string"
        THEN [ok |-> TRUE, value |-> <<commitTxData, spellTxData>>]
        ELSE IF commitTxData.type = "object"
        THEN IF spellTxData.type = "null"
             THEN [ok |-> FALSE, value |-> <<>>]
             ELSE [ok |-> TRUE,
                   value |-> << OrElse(bitcoinOf(commitTxData), stringifyValue(commitTxData)),
                                OrElse(bitcoinOf(spellTxData), stringifyValue(spellTxData)) >>]
        ELSE [ok |-> FALSE, value |-> <<>>]

\* the shapes an element of the response comes in
ResponseElements(h) ==
    { Hex(h), JsObject("bitcoin", Hex(h)), JsObject("hex", Hex(h)), JsNull }

CommitHexes == {"c1", "c2"}
SpellHexes == {"s1", "s2"}

\* proveSpell receives a two-element response
ProveSpellCall(o) ==
    /\ o = 1
    /\ calls < MaxCalls
    /\ calls' = calls + 1
    /\ \E hc \in CommitHexes, hs \in SpellHexes :
         \E c \in ResponseElements(hc), s \in ResponseElements(hs) :
            LET r == adaptResponse(<<c, s>>)
            IN  SetOp(o, [IdleOp EXCEPT !.kind = "proveSpell",
                                        !.pc = IF r.ok THEN "done" ELSE "failed",
                                        !.err = IF r.ok THEN "none" ELSE "PROVER_ERROR",
                                        !.result = r.value,
                                        !.trace = <<Event("response", <<c, s>>)>>])
    /\ UNCHANGED <<wasmCache, storageState, now, height, walletConnected, utxos, lockStore,
                   failedUTXOs, vaultsCache, vaultStorage>>
----------------------------------------------------------------------------
(* Transactions field by field, for the sign-and-resubmit fallback of       *)
(* createVault (vaultService.ts 204-232, psbtHelper.ts).  The calls into    *)
(* bitcoinjs-lib are modelled by what the library does: a new Psbt has      *)
(* version 2 and lock time 0, addInput without a sequence gives the input   *)
(* the default sequence.                                                    *)

DefaultSequence == "ffffffff"
NoOut == [script |-> "none", value |-> 0]

\* new bitcoin.Psbt({ network })
NewPsbt == [version |-> 2, locktime |-> 0, ins |-> <<>>, outs |-> <<>>]

\* Buffer.from(hash).reverse(): the bytes in the opposite order
ReverseBytes(bytes) == [i \in DOMAIN bytes |-> bytes[Len(bytes) + 1 - i]]

\* variant: the input's hash is handed to addInput in the transaction's own
\* byte order
addInputsUnreversed(psbt, unsignedTx, prevOut) ==
    [psbt EXCEPT !.ins = [i \in DOMAIN unsignedTx.ins |->
        LET prevTxId == unsignedTx.ins[i].hash
        IN  [hash |-> ReverseBytes(prevTxId),
             index |-> unsignedTx.ins[i].index,
             sequence |-> DefaultSequence,
             witnessUtxo |-> IF i = 1 THEN prevOut ELSE NoOut,
             tapKeySig |-> FALSE]]]

\* the loop over unsignedTx.ins (psbtHelper.ts 39-68): the id of the
\* transaction spent is the input's hash reversed, and addInput, given an id
\* as text, stores its bytes reversed; the index is copied, the witness UTXO
\* is given for the first input only
addInputs(psbt, unsignedTx, prevOut) ==
    [psbt EXCEPT !.ins = [i \in DOMAIN unsignedTx.ins |->
        LET prevTxId == ReverseBytes(unsignedTx.ins[i].hash)
        IN  [hash |-> ReverseBytes(prevTxId),
             index |-> unsignedTx.ins[i].index,
             sequence |-> DefaultSequence,
             witnessUtxo |-> IF i = 1 THEN prevOut ELSE NoOut,
             tapKeySig |-> FALSE]]]

\* the loop over unsignedTx.outs (psbtHelper.ts 71-76)
addOutputs(psbt, unsignedTx) ==
    [psbt EXCEPT !.outs = [i \in DOMAIN unsignedTx.outs |->
        [script |-> unsignedTx.outs[i].script, value |-> unsignedTx.outs[i].value]]]

\* the wallet's signPsbt: a key-path signature on every input whose witness
\* UTXO it was given
signPsbt(psbt) ==
    [psbt EXCEPT !.ins = [i \in DOMAIN psbt.ins |->
        [psbt.ins[i] EXCEPT !.tapKeySig = (psbt.ins[i].witnessUtxo # NoOut)]]]

\* psbt.finalizeAllInputs() with the manual fallback (psbtHelper.ts 157-207):
\* fails on an input without a signature
canFinalize(psbt) == \A i \in DOMAIN psbt.ins : psbt.ins[i].tapKeySig

\* psbt.extractTransaction(): the Psbt's own version, lock time, inputs and
\* outputs, each input with its witness
extractTransaction(psbt) ==
    [version |-> psbt.version,
     locktime |-> psbt.locktime,
     ins |-> [i \in DOMAIN psbt.ins |->
                [hash |-> psbt.ins[i].hash, index |-> psbt.ins[i].index,
                 sequence |-> psbt.ins[i].sequence, witness |-> <<"sig">>]],
     outs |-> psbt.outs]

\* the id of a transaction: the hash of its fields without the witnesses
txidOf(tx) ==
    [version |-> tx.version,
     locktime |-> tx.locktime,
     ins |-> [i \in DOMAIN tx.ins |->
                [hash |-> tx.ins[i].hash, index |-> tx.ins[i].index,
                 sequence |-> tx.ins[i].sequence]],
     outs |-> tx.outs]

\* the prevOut convertRawTxToPsbt reads from the funding transaction
FundingOut == [script |-> "p2tr_owner", value |-> 10000]

TxInput(hash, index, sequence) ==
    [hash |-> hash, index |-> index, sequence |-> sequence, witness |-> <<>>]

\* unsigned commit transactions a proof service may return for the funding
\* UTXO ta:0: the one input, or a second one the wallet does not own; the
\* commit output alone, or followed by a change output
CommitTxs ==
    { [version |-> v, locktime |-> l, ins |-> ins, outs |-> outs] :
         v \in {1, 2}, l \in {0, 500},
         outs \in { << [script |-> "p2tr_commit", value |-> 9000] >>,
                    << [script |-> "p2tr_commit", value |-> 5000],
                       [script |-> "p2tr_owner", value |-> 4000] >> },
         ins \in { <<TxInput(<<"0a", "7a">>, 0, s)>> : s \in {DefaultSequence, "fffffffd"} }
              \cup { <<TxInput(<<"0a", "7a">>, 0, DefaultSequence),
                       TxInput(<<"0b", "7b">>, 1, DefaultSequence)>> } }

\* convertRawTxToPsbt, signTransaction and extractTxFromPsbt on a commit
\* transaction, as the fallback of createVault chains them (lines 208-221)
ResubmitCall(o) ==
    /\ o = 1
    /\ calls < MaxCalls
    /\ calls' = calls + 1
    /\ \E commitTx \in CommitTxs :
         LET commitPsbt == addOutputs(addInputs(NewPsbt, commitTx, FundingOut), commitTx)
             signedCommitPsbt == signPsbt(commitPsbt)
             op == [IdleOp EXCEPT !.kind = "resubmit",
                                  !.trace = <<Event("commit", commitTx)>>]
         IN  IF canFinalize(signedCommitPsbt)
             THEN SetOp(o, [op EXCEPT !.pc = "done",
                                      !.result = <<extractTransaction(signedCommitPsbt)>>])
             ELSE SetOp(o, [op EXCEPT !.pc = "failed", !.err = "CREATE_VAULT_ERROR",
                                      !.cause = PlainErr])
    /\ UNCHANGED <<wasmCache, storageState, now, height, walletConnected, utxos, lockStore,
                   failedUTXOs, vaultsCache, vaultStorage>>

----------------------------------------------------------------------------
(* Specification of the conversions applied to the proof service's answer *)

NextCodec ==
    \/ \E o \in Ops : ProveSpellCall(o)
    \/ \E o \in Ops : ResubmitCall(o)

SpecCodec == Init /\ [][NextCodec]_vars
----------------------------------------------------------------------------
(* The pair proveSpell returns *)

\* an element that is a bare hex string or an object holding hex under
\* the key bitcoin
WellShaped(v) ==
    \/ v.type = "string"
    \/ v.type = "object" /\ v.key = "bitcoin"

\* the hex text a well-shaped element carries
HexOf(v) == IF v.type = "string" THEN v ELSE v.value

\* the response a finished proveSpell was given
ResponseOf(op) == op.trace[1].arg

\* C24: for every two-element response whose elements are, each on its own,
\* a bare hex string or an object wrapping hex under 'bitcoin', proveSpell
\* returns [commitTxHex, spellTxHex], mixed shapes included.
ResponseNormalised ==
    \A o \in Ops :
        (ops[o].kind = "proveSpell"
            /\ WellShaped(ResponseOf(ops[o])[1])
            /\ WellShaped(ResponseOf(ops[o])[2])) =>
                /\ ops[o].pc = "done"
                /\ ops[o].result = << HexOf(ResponseOf(ops[o])[1]),
                                      HexOf(ResponseOf(ops[o])[2]) >>

\* the part of C24 about elements of one shape
ResponseNormalisedSameShape ==
    \A o \in Ops :
        (ops[o].kind = "proveSpell"
            /\ WellShaped(ResponseOf(ops[o])[1])
            /\ WellShaped(ResponseOf(ops[o])[2])
            /\ ResponseOf(ops[o])[1].type = ResponseOf(ops[o])[2].type) =>
                /\ ops[o].pc = "done"
                /\ ops[o].result = << HexOf(ResponseOf(ops[o])[1]),
                                      HexOf(ResponseOf(ops[o])[2]) >>

----------------------------------------------------------------------------
(* The commit transaction that is resubmitted *)

\* the commit transaction a finished resubmission was given
CommitOf(op) == op.trace[1].arg

\* the signed commit transaction a finished resubmission produced
ResubmittedOf(op) == op.result[1]

Resubmitted(o) == ops[o].kind = "resubmit" /\ ops[o].pc = "done"

\* the inputs spend the same outpoints in the same order, and the outputs
\* are the same
SameOutpointsAndOutputs(a, b) ==
    /\ DOMAIN a.ins = DOMAIN b.ins
    /\ \A i \in DOMAIN a.ins :
           a.ins[i].hash = b.ins[i].hash /\ a.ins[i].index = b.ins[i].index
    /\ a.outs = b.outs

\* C30: the commit transaction resubmitted by the sign-and-resubmit fallback
\* has the version, lock time, input outpoints in order, sequence numbers
\* and outputs of the commit transaction the proof service returned, so its
\* transaction id, which the spell transaction spends, is unchanged.
ResubmitKeepsTxid ==
    \A o \in Ops :
        Resubmitted(o) =>
            LET a == CommitOf(ops[o])
                b == ResubmittedOf(ops[o])
            IN  /\ a.version = b.version
                /\ a.locktime = b.locktime
                /\ SameOutpointsAndOutputs(a, b)
                /\ \A i \in DOMAIN a.ins : a.ins[i].sequence = b.ins[i].sequence
                /\ txidOf(a) = txidOf(b)

\* the part of C30 about outpoints and outputs
ResubmitKeepsOutpoints ==
    \A o \in Ops :
        Resubmitted(o) =>
            SameOutpointsAndOutputs(CommitOf(ops[o]), ResubmittedOf(ops[o]))

\* a commit transaction of version 2, lock time 0 and default sequence was
\* resubmitted with its id unchanged
ResubmitKeepsOutpointsExample ==
    \E o \in Ops :
        /\ Resubmitted(o)
        /\ txidOf(CommitOf(ops[o])) = txidOf(ResubmittedOf(ops[o]))

----------------------------------------------------------------------------
(* Whose lock a terminating createVault removes *)

\* the record slot b wrote when it locked its funding UTXO is in the store
OwnRecordStored(store, b) ==
    \E i \in DOMAIN store :
        /\ store[i].utxoId = UtxoId(ops[b].utxo)
        /\ store[i].lockedAt = ops[b].lockedAt

\* slot a locked x, its lock expired, and slot b then locked x and is in
\* flight with its record in the store
LockTakenOver(a, b) ==
    /\ a # b
    /\ InFlight(a) /\ HasEv(ops[a].trace, "lock")
    /\ InFlight(b) /\ HasEv(ops[b].trace, "lock")
    /\ ops[a].utxo = ops[b].utxo
    /\ ops[a].lockedAt + LOCK_TIMEOUT <= ops[b].lockedAt
    /\ OwnRecordStored(lockStore, b)

\* C25: the release of a funding-UTXO lock by a terminating operation removes
\* only a lock that operation created: when A's lock on x has expired and B
\* has since locked x and is still in flight, A's termination leaves B's
\* record in the store.
ReleaseOwnLockOnly ==
    [][\A a, b \in Ops :
          (LockTakenOver(a, b) /\ Exits(a)) => OwnRecordStored(lockStore', b)]_vars

\* a terminating operation leaves the records of every other UTXO as they are
ReleaseLeavesOtherIds ==
    [][\A a \in Ops :
          (Exits(a) /\ ops[a].kind = "create") =>
              \A i \in DOMAIN lockStore :
                  lockStore[i].utxoId # UtxoId(ops[a].utxo) =>
                      \E j \in DOMAIN lockStore' : lockStore'[j] = lockStore[i]]_vars

----------------------------------------------------------------------------
(* A lock left behind and the selection of its UTXO (SpecFunds) *)

\* the step in which slot o is given a createVault call
FundingCallStep(o) == ops[o].pc = "idle" /\ ops'[o].kind = "create"

\* the registry holds a record for u that is younger than the timeout
LiveLock(u) ==
    \E k \in DOMAIN lockStore :
        lockStore[k].utxoId = UtxoId(u) /\ now < lockStore[k].lockedAt + LOCK_TIMEOUT

\* the registry holds a record for u that has reached the timeout
StaleLock(u) ==
    \E k \in DOMAIN lockStore :
        lockStore[k].utxoId = UtxoId(u) /\ now >= lockStore[k].lockedAt + LOCK_TIMEOUT

\* candidate i is the eligible candidate of minimum value, first on ties
FirstMinimum(i, amount) ==
    /\ Eligible(utxos[i], amount)
    /\ \A j \in DOMAIN utxos :
           Eligible(utxos[j], amount) =>
               \/ utxos[i].value < utxos[j].value
               \/ utxos[i].value = utxos[j].value /\ i <= j

\* the registry holds a record for u written now
FreshLock(store, u) ==
    \E k \in DOMAIN store :
        /\ store[k].utxoId = UtxoId(u)
        /\ store[k].lockedAt = now
        /\ store[k].expiresAt = now + LOCK_TIMEOUT

LeftLockStep ==
    \A o \in Ops :
        FundingCallStep(o) =>
            \A i \in DOMAIN utxos :
                /\ LiveLock(utxos[i]) => ops'[o].utxo # utxos[i]
                /\ (StaleLock(utxos[i]) /\ FirstMinimum(i, ops'[o].amount)) =>
                       /\ ops'[o].utxo = utxos[i]
                       /\ ops'[o].err # "INSUFFICIENT_FUNDS"
                       /\ ops'[o].pc = "height"
                       /\ FreshLock(lockStore', utxos[i])

\* C26: a lock left by an abandoned operation keeps its UTXO out of the
\* funding selection at every time before lockedAt + 15 minutes, and from
\* lockedAt + 15 minutes on a createVault selects and locks the UTXO, with no
\* explicit unlock and without failing on the stale record.
ExpiredLockFrees == [][LeftLockStep]_vars

\* a createVault is in flight on a UTXO whose stale record its selection
\* evicted, and holds the record it wrote in its place
ExpiredLockFreesWitness ==
    \E o \in Ops :
        /\ InFlight(o)
        /\ UtxoId(ops[o].utxo) \in ops[o].evicted
        /\ ops[o].lockedAt >= LOCK_TIMEOUT
        /\ OwnRecordStored(lockStore, o)

\* a createVault failed for lack of funds while the only candidate large
\* enough carried a lock younger than the timeout
ExcludedWhileLockedWitness ==
    \E o \in Ops :
        /\ ops[o].pc = "failed" /\ ops[o].err = "INSUFFICIENT_FUNDS"
        /\ ops[o].utxo = NoUtxo
        /\ \E i \in DOMAIN utxos : utxos[i].value >= ops[o].amount /\ LiveLock(utxos[i])

----------------------------------------------------------------------------
(* isLocked right after lock (SpecLock) *)

\* what isLocked(x) answers on a stored list at time t: the first record
\* for x exists and has not reached its expiry
AnswersLocked(store, x, t) ==
    \E k \in DOMAIN store :
        /\ store[k].utxoId = x
        /\ \A j \in DOMAIN store : store[j].utxoId = x => k <= j
        /\ t < store[k].expiresAt

\* the registry holds a record for x that has reached its expiry
HoldsExpired(store, x, t) ==
    \E k \in DOMAIN store : store[k].utxoId = x /\ t >= store[k].expiresAt

\* C27: right after lock(x) returns, with the clock unchanged and storage
\* working, isLocked(x) is true, also when the registry still held an expired
\* record for x that had not been evicted.
LockedAfterLock ==
    [][(Called("lock") /\ Healthy) => AnswersLocked(lockStore', Arg, now)]_vars

\* the part of C27 about an id without an expired record
LockedAfterLockUnlessExpired ==
    [][(Called("lock") /\ Healthy /\ ~ HoldsExpired(lockStore, Arg, now)) =>
           AnswersLocked(lockStore', Arg, now)]_vars

----------------------------------------------------------------------------
(* The output and the state a vault spell spends *)

\* the height of the latest creation, check-in or update the record shows
LastCheckinOf(v) == v.unlockBlock - v.triggerDelayBlocks

\* a check-in or update succeeded on the vault at a height above the one of
\* its creation
CheckedInSince(v) == LastCheckinOf(v) > v.createdBlock

\* the input of a spell built on a vault that was checked in on spends an
\* output other than the one of the create transaction and carries the
\* height of the latest check-in and the current beneficiaries
SpendsLatestStep ==
    \A o \in Ops : \A k \in VaultKinds :
        (BuildsSpell(o, k) /\ CheckedInSince(TheVault(o))) =>
            LET v == TheVault(o)
                input == BuiltSpell(o).ins[1]
            IN  /\ input.utxo_id # v.id
                /\ input.charms.last_checkin_block = LastCheckinOf(v)
                /\ input.charms.beneficiaries = v.beneficiaries

\* C28: after a successful check-in or update the next spell built for the
\* vault spends the contract output of that latest spell transaction and
\* attaches the state it wrote (last check-in height, current
\* beneficiaries), not the output and state of the create transaction.
SpellSpendsLatestOutput == [][SpendsLatestStep]_vars

\* the part of C28 about the beneficiaries: every vault spell carries the
\* record's current list in its input state
SpellCarriesBeneficiaries ==
    [][\A o \in Ops : \A k \in VaultKinds :
          BuildsSpell(o, k) =>
              BuiltSpell(o).ins[1].charms.beneficiaries = TheVault(o).beneficiaries]_vars

----------------------------------------------------------------------------
(* The app reference of a vault's spells *)

\* the funding UTXO id the create transaction of a vault was requested for
FundingIdOf(vaultId) == vaultId[1][3]

\* n/<SHA-256 of the funding UTXO id>/<app_vk>
AppRefOf(fundingId) == <<"n", <<"sha256", fundingId[1], fundingId[2]>>, AppVk>>

\* the create spell names the app by the funding UTXO it spends
CreateAppStep ==
    \A o \in Ops :
        BuildsSpell(o, "create") =>
            BuiltSpell(o).apps = AppRefOf(UtxoId(ops[o].utxo))

\* a spell on a vault names the app by the funding UTXO of the vault's
\* create transaction
VaultAppStep ==
    \A o \in Ops : \A k \in VaultKinds :
        BuildsSpell(o, k) =>
            BuiltSpell(o).apps = AppRefOf(FundingIdOf(ops[o].vaultId))

\* C29: the app reference n/<app_id>/<app_vk> in a vault's check-in, update
\* and distribute spells is the one of its create spell, with app_id the
\* SHA-256 of the funding UTXO id used at creation.
AppReferenceStable == [][CreateAppStep /\ VaultAppStep]_vars

\* the part of C29 about the create spell
CreateAppReference == [][CreateAppStep]_vars

----------------------------------------------------------------------------
(* C31: a failing vault operation leaves the vault records alone *)

\* the record getVault would hand out for id, given a cache and the storage
RecordIn(cache, storage, id) ==
    IF id \in DOMAIN cache THEN cache[id] ELSE storage[id]

\* slot o takes a step of checkin, updateBeneficiaries or distribute (the
\* call itself included) that is not its successful return
VaultOpNotReturning(o) ==
    /\ ops'[o] # ops[o]
    /\ ops'[o].kind \in VaultKinds
    /\ ops'[o].pc # "done"

\* the cached and persisted records of every vault are what they were
RecordsKept ==
    /\ vaultStorage' = vaultStorage
    /\ \A s \in Sessions :
         /\ DOMAIN vaultsCache[s] \subseteq DOMAIN vaultsCache'[s]
         /\ \A id \in DOMAIN vaultsCache'[s] :
              /\ id \in DOMAIN vaultsCache[s] \cup DOMAIN vaultStorage
              /\ vaultsCache'[s][id] = RecordIn(vaultsCache[s], vaultStorage, id)

FailedOpStep == \A o \in Ops : VaultOpNotReturning(o) => RecordsKept

\* C31: a check-in, update-beneficiaries or distribute operation that fails
\* at any step leaves the vault's cached and persisted record (status,
\* beneficiaries, unlockBlock, unlockDate) exactly as it was before the call:
\* no step of such an operation other than its successful return changes a
\* record.
FailedOpKeepsRecord == [][FailedOpStep]_vars

\* an update to a new list, called at a height above the creation height,
\* has failed at the package submission, and the record still has the old
\* list and the deadline of the creation
FailedOpKeepsRecordWitness ==
    \E o \in Ops :
      /\ ops[o].kind = "update" /\ ops[o].pc = "failed"
      /\ ops[o].err = "BITCOIN_ERROR"
      /\ HasEv(ops[o].trace, "rpc")
      /\ ops[o].vaultId \in DOMAIN vaultStorage
      /\ LET v == vaultStorage[ops[o].vaultId]
             h == ops[o].trace[LastEv(ops[o].trace, "height")].arg
         IN  /\ v.beneficiaries # ops[o].bens
             /\ h > v.createdBlock
             /\ v.unlockBlock = v.createdBlock + v.triggerDelayBlocks
             /\ v.status = "Active"
             /\ vaultsCache["tab1"][ops[o].vaultId] = v

----------------------------------------------------------------------------
(* C32: distribute and the status of the vault *)

\* slot o sends a proof request or submits a package in this step
Sends(o, ev) == EvCount(ops'[o].trace, ev) > EvCount(ops[o].trace, ev)

DistributeFromActiveStep ==
    \A o \in Ops :
        /\ ops[o].kind = "dist"
        /\ Sends(o, "prove") \/ Sends(o, "rpc")
        => RecordOf(ops[o].sess, ops[o].vaultId).status = "Active"

\* C32: distribute on a vault whose status is already Distributed sends no
\* proof request and no package submission: every proof request and every
\* package submission of a distribute is sent for a vault whose status is
\* Active.
DistributeOnlyFromActive == [][DistributeFromActiveStep]_vars

----------------------------------------------------------------------------
(* C33: when the missing wallet is reported *)

\* the operation reported WALLET_NOT_CONNECTED before it locked a UTXO and
\* before it sent a proof request
ReportedBeforeWork(op) ==
    op.err = "WALLET_NOT_CONNECTED" =>
        /\ ~ HasEv(op.trace, "lock")
        /\ ~ HasEv(op.trace, "prove")

\* an operation called while no wallet is connected fails within the call,
\* having locked and sent nothing
RejectedAtCall(o) ==
    Starts(o) /\ ~ walletConnected =>
        /\ ops'[o].pc = "failed"
        /\ ops'[o].trace = <<>>

\* C33: in every vault operation the absence of a wallet signer is reported
\* as WALLET_NOT_CONNECTED before any UTXO is locked and before the proof
\* request is sent; no operation obtains a proof and then fails because no
\* signer is available.
WalletCheckedBeforeProof ==
    /\ [][\A o \in Ops : RejectedAtCall(o)]_vars
    /\ [](\A o \in Ops : ReportedBeforeWork(ops[o]))

\* the same for createVault, checkin and updateBeneficiaries alone
WalletCheckedBeforeProofByOwner ==
    /\ [][\A o \in Ops : ops'[o].kind # "dist" => RejectedAtCall(o)]_vars
    /\ [](\A o \in Ops : ops[o].kind # "dist" => ReportedBeforeWork(ops[o]))

----------------------------------------------------------------------------
(* C34: createVault on a wallet that holds a fundable UTXO (SpecFunds) *)

Max(a, b) == IF a >= b THEN a ELSE b

\* the wallet holds a UTXO that is not locked, not cooling down and of value
\* at least max(amount, MIN_UTXO_VALUE)
Fundable(amount) ==
    \E i \in DOMAIN utxos : Eligible(utxos[i], Max(amount, MIN_UTXO_VALUE))

\* slot o starts a createVault that passes the validation and wallet checks
CreateCalled(o) ==
    /\ Starts(o) /\ ops'[o].kind = "create"
    /\ validateBeneficiaries(ops'[o].bens)
    /\ walletConnected

\* the call went on to lock a funding UTXO
ProceedsToLock(o) ==
    /\ ops'[o].err # "INSUFFICIENT_FUNDS"
    /\ HasEv(ops'[o].trace, "lock")
    /\ HasRecord(lockStore', UtxoId(ops'[o].utxo))

\* C34: if the wallet's UTXO set contains at least one UTXO that is not
\* locked, not in failure cooldown and of value >= max(requested amount,
\* 3000 sats), createVault does not fail with INSUFFICIENT_FUNDS and proceeds
\* to lock a funding UTXO.
FundableProceeds ==
    [][\A o \in Ops :
          CreateCalled(o) /\ Fundable(ops'[o].amount) => ProceedsToLock(o)]_vars

\* the same for requested amounts of at least 3000 sats
FundableProceedsFromMinimum ==
    [][\A o \in Ops :
          (/\ CreateCalled(o) /\ Fundable(ops'[o].amount)
           /\ ops'[o].amount >= MIN_UTXO_VALUE) => ProceedsToLock(o)]_vars

----------------------------------------------------------------------------
(* Specification of the spell builders alone: buildCheckinSpell and         *)
(* buildDistributeSpell applied to every vault UTXO, contract state, owner  *)
(* key and height within the bounds.                                        *)

\* the key the vault was created with, and the key of another wallet account
Pubkeys == {OwnerPubkey, "other_pubkey"}

\* vaultUTXO.value: below the fee reserve, odd, and round
SpellValues == {1000, 3055, 100000}

\* the vault UTXOs the builders are given
SpellVaultIds == {VaultIdOf(TxidOf(ProverResponse(<<t, 0>>)[2])) : t \in {"ta", "tb"}}

\* the contract states the builders are given
SpellCharms ==
    {[InheritanceContent(h, d, bens) EXCEPT !.owner_pubkey = pk] :
        h \in 0 .. 1, d \in Delays, bens \in ValidLists, pk \in Pubkeys}

\* spellBuilder.buildCheckinSpell(params)
BuildCheckinCall(o) ==
    /\ o = 1
    /\ ops[o].pc = "idle"
    /\ \E vaultId \in SpellVaultIds, value \in SpellValues, charm \in SpellCharms,
          ownerPubkey \in Pubkeys, currentBlock \in 0 .. MaxHeight :
         SetOp(o, [IdleOp EXCEPT
                     !.kind = "checkinSpell", !.pc = "done", !.vaultId = vaultId,
                     !.amount = value, !.curBlock = currentBlock,
                     !.result = <<buildCheckinSpell(vaultId, value, charm,
                                                    ownerPubkey, currentBlock)>>,
                     !.trace = <<Event("vaultCharm", charm),
                                 Event("ownerPubkey", ownerPubkey)>>])
    /\ UNCHANGED <<wasmCache, storageState, now, height, walletConnected, utxos, lockStore,
                   failedUTXOs, vaultsCache, vaultStorage, calls>>

\* spellBuilder.buildDistributeSpell(params): throws before the deadline
BuildDistributeCall(o) ==
    /\ o = 1
    /\ ops[o].pc = "idle"
    /\ \E vaultId \in SpellVaultIds, value \in SpellValues, charm \in SpellCharms,
          currentBlock \in 0 .. MaxHeight :
         LET op == [IdleOp EXCEPT !.kind = "distSpell", !.vaultId = vaultId,
                                  !.amount = value, !.curBlock = currentBlock,
                                  !.trace = <<Event("vaultCharm", charm)>>]
         IN  IF currentBlock <=
                    charm.last_checkin_block + charm.trigger_delay_blocks
             THEN SetOp(o, [op EXCEPT !.pc = "failed", !.cause = PlainErr])
             ELSE SetOp(o, [op EXCEPT !.pc = "done",
                                      !.result = <<buildDistributeSpell(vaultId, value,
                                                                        charm)>>])
    /\ UNCHANGED <<wasmCache, storageState, now, height, walletConnected, utxos, lockStore,
                   failedUTXOs, vaultsCache, vaultStorage, calls>>

NextSpell ==
    \/ \E o \in Ops : BuildCheckinCall(o)
    \/ \E o \in Ops : BuildDistributeCall(o)

SpecSpell == Init /\ [][NextSpell]_vars

----------------------------------------------------------------------------
(* C35: the check-in spell *)

\* the arguments of a builder call, and the spell it returned
CharmGiven(op) == op.trace[1].arg
KeyGiven(op) == op.trace[2].arg
SpellOf(op) == op.result[1]

\* the fields of a contract state other than last_checkin_block
OtherFields(c) ==
    <<c.owner_pubkey, c.trigger_delay_blocks, c.beneficiaries, c.status>>

\* one input, the vault UTXO with the state given; one output, with the
\* height as last_checkin_block and the value less the fee reserve
CheckinShape(op) ==
    LET spell == SpellOf(op)
    IN  /\ Len(spell.ins) = 1 /\ Len(spell.outs) = 1
        /\ spell.ins[1].utxo_id = op.vaultId
        /\ spell.ins[1].charms = CharmGiven(op)
        /\ spell.outs[1].charms.last_checkin_block = op.curBlock
        /\ spell.outs[1].sats = op.amount - ESTIMATED_FEE

\* the output state has the other fields of the input state
CheckinCarriesState(op) ==
    OtherFields(SpellOf(op).outs[1].charms) = OtherFields(SpellOf(op).ins[1].charms)

\* C35: the check-in spell has exactly one input (the vault UTXO with the
\* existing contract state) and exactly one output, whose contract state
\* equals the input state in every field except last_checkin_block, which is
\* the current height, and whose value is the input value minus the 2000-sat
\* fee reserve.
CheckinSpellFrame ==
    \A o \in Ops :
        ops[o].kind = "checkinSpell" =>
            CheckinShape(ops[o]) /\ CheckinCarriesState(ops[o])

\* the same, with owner_pubkey left out of the comparison when the builder
\* is given a key other than the one in the input state
CheckinSpellFrameSameOwner ==
    \A o \in Ops :
        ops[o].kind = "checkinSpell" =>
            /\ CheckinShape(ops[o])
            /\ KeyGiven(ops[o]) = CharmGiven(ops[o]).owner_pubkey
                   => CheckinCarriesState(ops[o])

----------------------------------------------------------------------------
(* C36: the distribute spell *)

DistributeShape(op) ==
    LET spell == SpellOf(op)
        bens == CharmGiven(op).beneficiaries
    IN  /\ Len(spell.ins) = 1
        /\ spell.ins[1].utxo_id = op.vaultId
        /\ spell.ins[1].charms = CharmGiven(op)
        /\ Len(spell.outs) = Len(bens)
        /\ \A i \in DOMAIN bens :
               /\ spell.outs[i].address = bens[i].address
               /\ spell.outs[i].charms = NoCharm

\* C36: every distribute spell has exactly one input carrying the existing
\* contract state and exactly one output per beneficiary, in beneficiary
\* order and addressed to that beneficiary, and no output carries a
\* contract-state attachment.
DistributeSpellBurns ==
    \A o \in Ops :
        ops[o].kind = "distSpell" /\ ops[o].pc = "done" => DistributeShape(ops[o])

\* a distribute spell for two beneficiaries has been built
DistributeSpellBurnsWitness ==
    \E o \in Ops :
        /\ ops[o].kind = "distSpell" /\ ops[o].pc = "done"
        /\ Len(CharmGiven(ops[o]).beneficiaries) = 2
        /\ Len(SpellOf(ops[o]).outs) = 2
        /\ SpellOf(ops[o]).outs[1].address # SpellOf(ops[o]).outs[2].address

----------------------------------------------------------------------------
(* The id broadcastPackage returns (bitcoinClient, lines 125-146), from the  *)
(* `result` of the node's answer.  tx_results is an object: its entries are *)
(* kept in the order the answer lists them, as Object.values returns them.  *)

\* bitcoin.Transaction.fromHex(txHex).getId()
getId(txHex) == <<"txid", txHex>>

\* the key of a transaction in a map keyed by transaction hex; a node's own
\* map is keyed by witness id, <<"wtxid", txHex>>
hexKey(txHex) == <<"hex", txHex>>

\* the txid property of an entry that has none, or of no entry
NoTxid == <<"undefined", "none">>

\* txResults[key]?.txid
txidByKey(txResults, key) ==
    IF \E i \in DOMAIN txResults : txResults[i].key = key
    THEN txResults[CHOOSE i \in DOMAIN txResults : txResults[i].key = key].txid
    ELSE NoTxid

\* (Object.values(txResults)[1] as any)?.txid
txidOfSecond(txResults) ==
    IF Len(txResults) >= 2 THEN txResults[2].txid ELSE NoTxid

\* the spellTxid broadcastPackage returns
spellTxid(result, spellTxHex) ==
    LET byKey == txidByKey(result.tx_results, hexKey(spellTxHex))
        fromMap == IF ~ result.hasMap THEN NoTxid
                   ELSE IF byKey # NoTxid THEN byKey
                   ELSE txidOfSecond(result.tx_results)
    IN  IF fromMap # NoTxid THEN fromMap ELSE getId(spellTxHex)

\* the results a node may answer a package with: no tx_results property, or
\* a map keyed by transaction hex or by witness id, listing one or both
\* transactions in either order, each entry with or without a txid
SubmitResults(commitTxHex, spellTxHex) ==
    LET entries(kind) ==
            {[key |-> <<kind, txHex>>, txid |-> id] :
                txHex \in {commitTxHex, spellTxHex},
                id \in {getId(commitTxHex), getId(spellTxHex), NoTxid}}
        own(kind) == {e \in entries(kind) : e.txid \in {NoTxid, getId(e.key[2])}}
        maps(kind) ==
            {<<a>> : a \in own(kind)} \cup
            {<<a, b>> : a \in own(kind), b \in own(kind)}
        listed(m) == Len(m) = 1 \/ m[1].key # m[2].key
    IN  {[hasMap |-> FALSE, tx_results |-> <<>>]} \cup
        {[hasMap |-> TRUE, tx_results |-> m] :
            m \in {x \in maps("hex") \cup maps("wtxid") : listed(x)}}

\* the spell transactions of the packages submitted
PackageSpellHexes == {"s1", "s2", "s3"}

\* bitcoinClient.broadcastPackage(commitTxHex, spellTxHex), accepted by the node
BroadcastPackageCall(o) ==
    /\ o = 1
    /\ ops[o].pc = "idle"
    /\ \E commitTxHex \in CommitHexes, spellTxHex \in PackageSpellHexes :
         \E result \in SubmitResults(commitTxHex, spellTxHex) :
            SetOp(o, [IdleOp EXCEPT
                        !.kind = "broadcastPackage", !.pc = "done",
                        !.result = <<spellTxid(result, spellTxHex)>>,
                        !.trace = <<Event("package", <<commitTxHex, spellTxHex>>),
                                    Event("result", result)>>])
    /\ UNCHANGED <<wasmCache, storageState, now, height, walletConnected, utxos, lockStore,
                   failedUTXOs, vaultsCache, vaultStorage, calls>>

NextBroadcast == \E o \in Ops : BroadcastPackageCall(o)

SpecBroadcast == Init /\ [][NextBroadcast]_vars

----------------------------------------------------------------------------
(* C37: the id a successful package submission returns *)

PackageOf(op) == op.trace[1].arg
ResultOf(op) == op.trace[2].arg

\* the map, if any, lists the package's transactions in package order
InPackageOrder(op) ==
    LET m == ResultOf(op).tx_results
    IN  Len(m) = 2 => m[1].key[2] = PackageOf(op)[1]

ReturnsSpellTxid(op) ==
    /\ op.result[1] = getId(PackageOf(op)[2])
    /\ op.result[1] # getId(PackageOf(op)[1])

\* C37: when package submission succeeds, the id broadcastPackage returns is
\* the transaction id of the spell transaction (the second element of the
\* package), whether resolved from the node's per-transaction result map or
\* recomputed from the spell transaction, and never the id of the commit
\* transaction.
BroadcastReturnsSpellTxid ==
    \A o \in Ops : ops[o].kind = "broadcastPackage" => ReturnsSpellTxid(ops[o])

\* the same for answers whose map lists the package in package order
BroadcastReturnsSpellTxidInOrder ==
    \A o \in Ops :
        ops[o].kind = "broadcastPackage" /\ InPackageOrder(ops[o])
            => ReturnsSpellTxid(ops[o])

----------------------------------------------------------------------------
(* C38: the contract binary is loaded once per session (Spec) *)

\* slot o completes a load of the binary in this step
Loads(o) == ops[o].pc = "wasm" /\ ops'[o].pc = "prove"

\* slot o builds its proof request from the cached binary in this step
ReusesCache(o) == ops[o].pc = "request" /\ ops'[o].pc = "prove"

LoadedOnceStep ==
    \A o \in Ops :
        /\ Loads(o) => ~ wasmCache[ops[o].sess]
        /\ ops[o].pc = "request" /\ wasmCache[ops[o].sess] /\ ops'[o] # ops[o]
               => ReusesCache(o)

\* C38: within one session the contract binary is loaded at most once,
\* however many proof requests are built and however their constructions
\* interleave; every proof request after the first load reuses the cached
\* encoding.
WasmLoadedOnce == [][LoadedOnceStep]_vars

\* the part of C38 about requests built after a load has completed
WasmReusedAfterLoad ==
    [][\A o \in Ops :
          ops[o].pc = "request" /\ wasmCache[ops[o].sess] /\ ops'[o] # ops[o]
              => ReusesCache(o) /\ UNCHANGED wasmCache]_vars

\* a request has been built from the binary another invocation of the same
\* session had loaded
WasmReusedExample ==
    \E a, b \in Ops :
        /\ a # b
        /\ ops[a].sess = ops[b].sess /\ wasmCache[ops[a].sess]
        /\ ops[a].pc = "prove" /\ ops[b].pc = "prove"

----------------------------------------------------------------------------
(* One proof request per invocation *)

ProofRequests(op) == EvCount(op.trace, "prove")

\* the step of o out of the pending proof request that is not its success
ProofFails(o) ==
    /\ ops[o].pc = "prove"
    /\ ops'[o] # ops[o]
    /\ ops'[o].pc \notin {"import", "sign1"}

ProofFailureEndsOp(o) ==
    ProofFails(o) => /\ ops'[o].pc = "failed"
                     /\ ProofRequests(ops'[o]) = 1

\* C39: an invocation of createVault, checkin, updateBeneficiaries or
\* distribute posts at most one proof request, and when the proof service
\* fails or times out the invocation fails with the one request it had sent
ProofSentOnce ==
    /\ [](\A o \in Ops : /\ ProofRequests(ops[o]) <= 1
                         /\ ops[o].pc = "prove" => ProofRequests(ops[o]) = 1)
    /\ [][\A o \in Ops : ProofFailureEndsOp(o)]_vars

\* an invocation of each kind failed on the proof service after one request
ProofSentOnceWitness ==
    \E o \in Ops :
        /\ ops[o].kind \in VaultKinds
        /\ ops[o].pc = "failed"
        /\ ops[o].cause = CharmErr("PROVER_ERROR")
        /\ ProofRequests(ops[o]) = 1

----------------------------------------------------------------------------
(* The round trip of a transaction through the partially-signed form *)

Outpoint(in) == <<in.hash, in.index>>

\* C40: a transaction converted to partially-signed form, signed and
\* extracted back to raw form has as many inputs and outputs as the unsigned
\* transaction, the same input outpoints in the same order, and the same
\* output scripts and values in the same order
RoundTripKeepsShape ==
    \A o \in Ops :
        Resubmitted(o) =>
            LET unsignedTx == CommitOf(ops[o])
                finalTx == ResubmittedOf(ops[o])
            IN  /\ Len(finalTx.ins) = Len(unsignedTx.ins)
                /\ Len(finalTx.outs) = Len(unsignedTx.outs)
                /\ \A i \in 1..Len(unsignedTx.ins) :
                       Outpoint(finalTx.ins[i]) = Outpoint(unsignedTx.ins[i])
                /\ \A j \in 1..Len(unsignedTx.outs) :
                       /\ finalTx.outs[j].script = unsignedTx.outs[j].script
                       /\ finalTx.outs[j].value = unsignedTx.outs[j].value

\* a transaction with two different outputs came back signed, its input
\* spending the outpoint the unsigned transaction spends
RoundTripKeepsShapeWitness ==
    \E o \in Ops :
        /\ Resubmitted(o)
        /\ Len(CommitOf(ops[o]).outs) = 2
        /\ CommitOf(ops[o]).outs[1] # CommitOf(ops[o]).outs[2]
        /\ ResubmittedOf(ops[o]).outs = CommitOf(ops[o]).outs
        /\ Outpoint(ResubmittedOf(ops[o]).ins[1]) = <<(<<"0a", "7a">>), 0>>
        /\ ResubmittedOf(ops[o]).ins[1].witness # <<>>

====
